---------------------------- MODULE Spec2Model ----------------------------
(***************************************************************************)
(* A model of the diagnostic-log analysis core of youweka/Integrated:      *)
(*   - the customer-journal transaction extractor                          *)
(*     (parse_customer_journal / _find_all_transactions), in its two       *)
(*     drafts src/modules/transaction_analyzer.py ("modules") and          *)
(*     src/transaction_analyzer.py ("root");                               *)
(*   - the flow aligner (find_lcs_matches);                                *)
(*   - the file classifier and category router (detect_file_type,          *)
(*     CategorizationService);                                             *)
(*   - the UI event parser (parse_ui_journal), the screen flows            *)
(*     (get_screen_flow, the flow report and its reader, the flow          *)
(*     consumers of routes.py);                                            *)
(*   - the batch results (prepare_response, analyze_customer_journals).    *)
(* Python indices are kept 0-based in the variables; row r of a list is    *)
(* element r + 1 of the sequence that models it.                           *)
(***************************************************************************)
EXTENDS Integers, Sequences, FiniteSets, TLC

VARIABLES
    \* ---- transaction extractor ----
    draft,               \* which draft of transaction_analyzer.py runs
    cfg,                 \* xml_to_dict result: real_dict, start_key, end_key, chain_key
    lines,               \* the journal file's raw lines
    df,                  \* parsed rows [timestamp, tid, message]
    i, j,                \* outer and inner loop indices (0-based)
    start_idx, end_idx,  \* candidate segment; end_idx = None while not found
    transactions_bounds, \* closed segments <<start_idx, end_idx>>
    k,                   \* number of closed segments already built
    transactions,        \* emitted transaction records
    pc,                  \* position inside parse_customer_journal
    today,               \* the wall clock's date (days), as datetime.today() reads it
    run,                 \* 1 for the first extraction of the input, 2 for the re-run
    firstRun,            \* outcome of the first extraction
    \* ---- flow aligner ----
    flow1, flow2,        \* the two screen lists
    lcs_table,           \* (m+1) x (n+1) table, rows and columns 0-based
    li, lj,              \* loop indices of the fill / the backtrack
    matches1, matches2,  \* the two masks
    lpc,                 \* position inside find_lcs_matches
    \* ---- classifier and router ----
    file,                \* the file under classification
    file_type,           \* detect_file_type's return value
    file_categories,     \* the router's buckets
    cpc,                 \* position inside categorize_files
    \* ---- UI event parser ----
    ui_file,             \* the UI journal: file name stem and raw lines
    ui_k,                \* number of lines the current pass has handled
    processed_lines,     \* set of cleaned lines seen so far
    cleaned_lines,       \* pass 1 output
    parsed_data,         \* pass 2 output so far
    ui_df,               \* parse_ui_journal's return value
    upc,                 \* position inside parse_ui_journal
    \* ---- screen flows ----
    window,              \* the transaction's Start Time and End Time (seconds)
    screen_flow,         \* get_screen_flow's return value
    report_flow,         \* the Flow line of the report: its tokens, or None
    read_flow,           \* the screens read back from the report
    side_flow,           \* create_side_by_side_flow_comparison_data: txn1_flow['screens']
    compare_flow,        \* compare_transactions_flow: ui_flow_1
    visual_flow,         \* visualize_individual_transaction_flow: ui_flow
    fpc,                 \* which flow operation ran
    \* ---- batch results ----
    response,            \* ProcessingService.prepare_response's result
    summary              \* analyze_customer_journals' summary

extractorVars == <<draft, cfg, lines, df, i, j, start_idx, end_idx,
                   transactions_bounds, k, transactions, pc, today, run, firstRun>>
alignerVars == <<flow1, flow2, lcs_table, li, lj, matches1, matches2, lpc>>
routerVars == <<file, file_type, file_categories, cpc>>
parserVars == <<ui_file, ui_k, processed_lines, cleaned_lines, parsed_data, ui_df, upc>>
flowVars == <<window, screen_flow, report_flow, read_flow, side_flow, compare_flow,
              visual_flow, fpc>>
uiVars == <<parserVars, flowVars>>
batchVars == <<response, summary>>
vars == <<extractorVars, alignerVars, routerVars, uiVars, batchVars>>

\* ------------------------------------------------------------------------
\* Bounds of the model
\* ------------------------------------------------------------------------
MaxWalkLines == 6
MaxTxnLines == 3
MaxDay == 1
MaxFlowLen == 3
MaxFileLines == 6
MaxScoreLines == 10
MaxUiLines == 3
MaxEvents == 3
MaxStartLines == 4
MaxFairLines == 5
MaxIndicatorLines == 1

\* ------------------------------------------------------------------------
\* Transaction extractor: data
\* ------------------------------------------------------------------------
None == -1
NoKey == ""
SecondsPerDay == 86400
FunctionTid == "3217"
AbandonAfter == 3
Dummy == "CJ20250404"

\* datetime.strptime(s, "%H:%M:%S").time() on the digits <<hh, mm, ss>>:
\* seconds since midnight, or None where strptime raises ValueError.
Strptime(clock) ==
    IF clock[1] < 24 /\ clock[2] < 60 /\ clock[3] < 60
    THEN clock[1] * 3600 + clock[2] * 60 + clock[3]
    ELSE None

\* One raw line -> one parsed row (the body of the parsing loop).
ParseLine(line) ==
    IF line.kind = "coded"
    THEN [timestamp |-> Strptime(line.clock), tid |-> line.tid, message |-> line.msg]
    ELSE [timestamp |-> None, tid |-> "None", message |-> line.msg]

RECURSIVE ParseLines(_)
ParseLines(ls) ==
    IF ls = <<>> THEN <<>>
    ELSE IF Head(ls).kind \in {"blank", "stars"} THEN ParseLines(Tail(ls))
    ELSE <<ParseLine(Head(ls))>> \o ParseLines(Tail(ls))

InKeys(tid, keys) == \E n \in 1..Len(keys) : keys[n] = tid

IsStartOrChain(row) == InKeys(row.tid, cfg.start_key) \/ InKeys(row.tid, cfg.chain_key)
IsEnd(row) == InKeys(row.tid, cfg.end_key)

Row(r) == df[r + 1]

\* ------------------------------------------------------------------------
\* Transaction extractor: deriving one transaction from a closed segment
\* ------------------------------------------------------------------------
\* txn_segment = df.iloc[start_idx:end_idx+1]
Segment(b) == SubSeq(df, b[1] + 1, b[2] + 1)

\* txn_segment[txn_segment["tid"] == str(tid)]
Matches(seg, tid) == SelectSeq(seg, LAMBDA r : r.tid = tid)

\* "for tid in keys: if not matches.empty: ... break": the first key, in
\* configuration order, that has a matching row in the segment.
RECURSIVE FirstKeyWithMatch(_, _)
FirstKeyWithMatch(keys, seg) ==
    IF keys = <<>> THEN NoKey
    ELSE IF Matches(seg, Head(keys)) # <<>> THEN Head(keys)
    ELSE FirstKeyWithMatch(Tail(keys), seg)

\* re.search(r"Transaction no\. '([^']*)'", message) with a non-blank group
HasTxnNo(msg) == msg.txnno \notin {"absent", "blank"}

SynthId(t) == [kind |-> "synth", stem |-> Dummy, no |-> "", hhmmss |-> t]
ExplicitId(no) == [kind |-> "explicit", stem |-> "", no |-> no, hhmmss |-> None]
ChainId == [kind |-> "chain", stem |-> Dummy, no |-> "", hhmmss |-> None]
NoId == [kind |-> "none", stem |-> "", no |-> "", hhmmss |-> None]

\* "Find start details": regular start first, chaining when no start time came
\* out of it.  raised models the AttributeError of None.strftime.
StartDetails(seg) ==
    LET skey == FirstKeyWithMatch(cfg.start_key, seg)
        srow == Head(Matches(seg, skey))
        sRaised == skey # NoKey /\ ~HasTxnNo(srow.message) /\ srow.timestamp = None
        sTime == IF skey = NoKey THEN None ELSE srow.timestamp
        sId == IF skey = NoKey THEN NoId
               ELSE IF HasTxnNo(srow.message) THEN ExplicitId(srow.message.txnno)
               ELSE SynthId(srow.timestamp)
        ckey == FirstKeyWithMatch(cfg.chain_key, seg)
        crow == Head(Matches(seg, ckey))
    IN  IF sRaised THEN [raised |-> TRUE, start_time |-> None, txn_id |-> NoId]
        ELSE IF sTime = None /\ ckey # NoKey
        THEN [raised |-> FALSE, start_time |-> crow.timestamp,
              txn_id |-> IF crow.timestamp # None THEN SynthId(crow.timestamp) ELSE ChainId]
        ELSE [raised |-> FALSE, start_time |-> sTime, txn_id |-> sId]

\* Substring classification of the end message.
EndStateOf(msg) ==
    IF msg.state = "N" THEN "Successful"
    ELSE IF msg.state \in {"E", "C"} THEN "Unsuccessful"
    ELSE "Unknown"

\* "Find end details": the last row of the first end key that has a match.
EndDetails(seg) ==
    LET ekey == FirstKeyWithMatch(cfg.end_key, seg)
        em == Matches(seg, ekey)
        erow == em[Len(em)]
    IN  IF ekey = NoKey THEN [end_time |-> None, end_state |-> "Unknown"]
        ELSE [end_time |-> erow.timestamp, end_state |-> EndStateOf(erow.message)]

\* Rows with tid 3217 whose message holds Function '<token>'; a token is the
\* sequence of its '/'-separated parts, <<>> when the message has none.
FuncRows(seg) == SelectSeq(Matches(seg, FunctionTid), LAMBDA r : r.message.func # <<>>)

\* real_dict.get(key, key); names and codes are one-part strings.
DictGet(key) == IF key \in DOMAIN cfg.real_dict THEN cfg.real_dict[key] ELSE key

\* modules draft: func_match.group(1).split('/')[0]
FuncKeyModules(token) == <<token[1]>>
\* root draft: func_match.group(1).strip()
FuncKeyRoot(token) == token

TxnType(seg) ==
    IF FuncRows(seg) = <<>> THEN <<"Unknown">>
    ELSE IF draft = "modules" THEN DictGet(FuncKeyModules(Head(FuncRows(seg)).message.func))
    ELSE DictGet(FuncKeyRoot(Head(FuncRows(seg)).message.func))

\* modules draft: (combine(today(), end) - combine(today(), start)).total_seconds(),
\* plus 24h when negative; "N/A" without both times.  d1 is the date the first
\* today() call returns, d2 the second.
DurationModules(start_time, end_time, d1, d2) ==
    IF start_time # None /\ end_time # None
    THEN LET raw == (d1 * SecondsPerDay + end_time) - (d2 * SecondsPerDay + start_time)
         IN  [avail |-> TRUE, secs |-> IF raw < 0 THEN raw + 24 * 3600 ELSE raw]
    ELSE [avail |-> FALSE, secs |-> 0]

\* root draft: start_dt first, end_dt second, no wrap, 0 without both times.
DurationRoot(start_time, end_time, d1, d2) ==
    IF start_time # None /\ end_time # None
    THEN [avail |-> TRUE,
          secs |-> (d2 * SecondsPerDay + end_time) - (d1 * SecondsPerDay + start_time)]
    ELSE [avail |-> TRUE, secs |-> 0]

Duration(start_time, end_time, d1, d2) ==
    IF draft = "modules" THEN DurationModules(start_time, end_time, d1, d2)
    ELSE DurationRoot(start_time, end_time, d1, d2)

\* The body of "for start_idx, end_idx in transactions_bounds".
MakeTransaction(b, d1, d2) ==
    LET seg == Segment(b)
        sd == StartDetails(seg)
        ed == EndDetails(seg)
    IN  [TransactionID |-> sd.txn_id,
         TransactionType |-> TxnType(seg),
         StartTime |-> sd.start_time,
         EndTime |-> ed.end_time,
         Duration |-> Duration(sd.start_time, ed.end_time, d1, d2),
         EndState |-> ed.end_state,
         TransactionLog |-> seg,
         Source_File |-> Dummy]

\* ------------------------------------------------------------------------
\* Transaction extractor: steps
\* ------------------------------------------------------------------------
walkVars == <<i, j, start_idx, end_idx, transactions_bounds>>
inputVars == <<draft, cfg, lines>>

\* parse_customer_journal up to the call of _find_all_transactions
Parse ==
    /\ pc = "parse"
    /\ UNCHANGED <<alignerVars, routerVars, uiVars, batchVars>>
    /\ df' = ParseLines(lines)
    /\ pc' = "outer"
    /\ UNCHANGED <<inputVars, walkVars, k, transactions, today, run, firstRun>>

\* One test of "while i < len(df)" and of the start/chain condition.
OuterStep ==
    /\ pc = "outer"
    /\ UNCHANGED <<alignerVars, routerVars, uiVars, batchVars>>
    /\ IF i < Len(df)
       THEN IF IsStartOrChain(Row(i))
            THEN /\ start_idx' = i
                 /\ j' = i + 1
                 /\ end_idx' = None
                 /\ pc' = "inner"
                 /\ UNCHANGED i
            ELSE /\ i' = i + 1
                 /\ UNCHANGED <<j, start_idx, end_idx, pc>>
       ELSE /\ pc' = "build"
            /\ UNCHANGED <<i, j, start_idx, end_idx>>
    /\ UNCHANGED <<inputVars, df, transactions_bounds, k, transactions, today, run, firstRun>>

\* InnerStep when any later start/chain line abandons the scan at once.
InnerStepNoGrace ==
    /\ pc = "inner"
    /\ UNCHANGED <<alignerVars, routerVars, uiVars, batchVars>>
    /\ IF j < Len(df)
       THEN IF IsEnd(Row(j))
            THEN /\ end_idx' = j
                 /\ pc' = "close"
                 /\ UNCHANGED j
            ELSE IF IsStartOrChain(Row(j))
            THEN /\ pc' = "close"
                 /\ UNCHANGED <<j, end_idx>>
            ELSE /\ j' = j + 1
                 /\ UNCHANGED <<end_idx, pc>>
       ELSE /\ pc' = "close"
            /\ UNCHANGED <<j, end_idx>>
    /\ UNCHANGED <<inputVars, df, i, start_idx, transactions_bounds, k, transactions,
                   today, run, firstRun>>

\* One test of "while j < len(df)" and one pass through its body.
InnerStep ==
    /\ pc = "inner"
    /\ UNCHANGED <<alignerVars, routerVars, uiVars, batchVars>>
    /\ IF j < Len(df)
       THEN IF IsEnd(Row(j))
            THEN /\ end_idx' = j
                 /\ pc' = "close"
                 /\ UNCHANGED j
            ELSE IF IsStartOrChain(Row(j)) /\ j > i + AbandonAfter
            THEN /\ pc' = "close"
                 /\ UNCHANGED <<j, end_idx>>
            ELSE /\ j' = j + 1
                 /\ UNCHANGED <<end_idx, pc>>
       ELSE /\ pc' = "close"
            /\ UNCHANGED <<j, end_idx>>
    /\ UNCHANGED <<inputVars, df, i, start_idx, transactions_bounds, k, transactions,
                   today, run, firstRun>>

\* CloseSegment when the walk resumes at i + 1 even after closing a segment.
CloseSegmentNoSkip ==
    /\ pc = "close"
    /\ UNCHANGED <<alignerVars, routerVars, uiVars, batchVars>>
    /\ IF end_idx # None
       THEN transactions_bounds' = Append(transactions_bounds, <<start_idx, end_idx>>)
       ELSE UNCHANGED transactions_bounds
    /\ i' = i + 1
    /\ pc' = "outer"
    /\ UNCHANGED <<inputVars, df, j, start_idx, end_idx, k, transactions, today, run, firstRun>>

\* CloseSegment when an unterminated candidate makes the walk resume after the
\* line at which its scan stopped.
CloseSegmentSkipScanned ==
    /\ pc = "close"
    /\ UNCHANGED <<alignerVars, routerVars, uiVars, batchVars>>
    /\ IF end_idx # None
       THEN /\ transactions_bounds' = Append(transactions_bounds, <<start_idx, end_idx>>)
            /\ i' = end_idx + 1
       ELSE /\ i' = j + 1
            /\ UNCHANGED transactions_bounds
    /\ pc' = "outer"
    /\ UNCHANGED <<inputVars, df, j, start_idx, end_idx, k, transactions, today, run, firstRun>>

\* CloseSegment when an unterminated candidate leaves i where it is.
CloseSegmentStay ==
    /\ pc = "close"
    /\ UNCHANGED <<alignerVars, routerVars, uiVars, batchVars>>
    /\ IF end_idx # None
       THEN /\ transactions_bounds' = Append(transactions_bounds, <<start_idx, end_idx>>)
            /\ i' = end_idx + 1
       ELSE UNCHANGED <<i, transactions_bounds>>
    /\ pc' = "outer"
    /\ UNCHANGED <<inputVars, df, j, start_idx, end_idx, k, transactions, today, run, firstRun>>

\* "if end_idx is not None: append, i = end_idx + 1  else: i += 1"
CloseSegment ==
    /\ pc = "close"
    /\ UNCHANGED <<alignerVars, routerVars, uiVars, batchVars>>
    /\ IF end_idx # None
       THEN /\ transactions_bounds' = Append(transactions_bounds, <<start_idx, end_idx>>)
            /\ i' = end_idx + 1
       ELSE /\ i' = i + 1
            /\ UNCHANGED transactions_bounds
    /\ pc' = "outer"
    /\ UNCHANGED <<inputVars, df, j, start_idx, end_idx, k, transactions, today, run, firstRun>>

\* Whether building segment b reads the wall clock (both times present).
ReadsClock(b) ==
    StartDetails(Segment(b)).start_time # None /\ EndDetails(Segment(b)).end_time # None

\* BuildTransaction when a segment without a resolved end time is left out.
BuildTransactionDropUntimed ==
    /\ pc = "build"
    /\ UNCHANGED <<alignerVars, routerVars, uiVars, batchVars>>
    /\ k < Len(transactions_bounds)
    /\ LET b == transactions_bounds[k + 1]
       IN  IF StartDetails(Segment(b)).raised
           THEN /\ pc' = "raised"
                /\ UNCHANGED <<k, transactions, today>>
           ELSE \E d1 \in today..MaxDay : \E d2 \in d1..MaxDay :
                   /\ ReadsClock(b) \/ (d1 = today /\ d2 = today)
                   /\ transactions' =
                          IF EndDetails(Segment(b)).end_time = None THEN transactions
                          ELSE Append(transactions, MakeTransaction(b, d1, d2))
                   /\ today' = d2
                   /\ k' = k + 1
                   /\ UNCHANGED pc
    /\ UNCHANGED <<inputVars, df, walkVars, run, firstRun>>

\* One pass of the building loop.  The two datetime.today() calls return dates
\* d1 <= d2 no earlier than the last date read; midnight may fall between them.
BuildTransaction ==
    /\ pc = "build"
    /\ UNCHANGED <<alignerVars, routerVars, uiVars, batchVars>>
    /\ k < Len(transactions_bounds)
    /\ LET b == transactions_bounds[k + 1]
       IN  IF StartDetails(Segment(b)).raised
           THEN /\ pc' = "raised"
                /\ UNCHANGED <<k, transactions, today>>
           ELSE \E d1 \in today..MaxDay : \E d2 \in d1..MaxDay :
                   /\ ReadsClock(b) \/ (d1 = today /\ d2 = today)
                   /\ transactions' = Append(transactions, MakeTransaction(b, d1, d2))
                   /\ today' = d2
                   /\ k' = k + 1
                   /\ UNCHANGED pc
    /\ UNCHANGED <<inputVars, df, walkVars, run, firstRun>>

\* "return transactions"
Return ==
    /\ pc = "build"
    /\ UNCHANGED <<alignerVars, routerVars, uiVars, batchVars>>
    /\ k = Len(transactions_bounds)
    /\ pc' = "done"
    /\ UNCHANGED <<inputVars, df, walkVars, k, transactions, today, run, firstRun>>

\* What a caller of parse_customer_journal observes.
Outcome == [raised |-> pc = "raised", transactions |-> IF pc = "done" THEN transactions ELSE <<>>]

\* The same file is extracted a second time (a second request, a second batch).
Rerun ==
    /\ pc \in {"done", "raised"}
    /\ UNCHANGED <<alignerVars, routerVars, uiVars, batchVars>>
    /\ run = 1
    /\ firstRun' = Outcome
    /\ run' = 2
    /\ pc' = "parse"
    /\ df' = <<>>
    /\ i' = 0 /\ j' = 0 /\ start_idx' = None /\ end_idx' = None
    /\ transactions_bounds' = <<>>
    /\ k' = 0
    /\ transactions' = <<>>
    /\ UNCHANGED <<inputVars, today>>

ExtractorNext ==
    \/ Parse
    \/ OuterStep
    \/ InnerStep
    \/ CloseSegment
    \/ BuildTransaction
    \/ Return
    \/ Rerun

ExtractorIdle ==
    /\ draft = "modules"
    /\ cfg = [real_dict |-> <<>>, start_key |-> <<>>, end_key |-> <<>>, chain_key |-> <<>>]
    /\ lines = <<>>
    /\ df = <<>>
    /\ i = 0 /\ j = 0 /\ start_idx = None /\ end_idx = None
    /\ transactions_bounds = <<>>
    /\ k = 0
    /\ transactions = <<>>
    /\ pc = "idle"
    /\ today = 0
    /\ run = 1
    /\ firstRun = [raised |-> FALSE, transactions |-> <<>>]

\* ------------------------------------------------------------------------
\* Transaction extractor: inputs
\* ------------------------------------------------------------------------
\* Sequences over S of length at most n.
SeqUpTo(S, n) == UNION {[1..m -> S] : m \in 0..n}

NoMsg == [txnno |-> "absent", func |-> <<>>, state |-> "none"]
Coded(clock, tid, msg) == [kind |-> "coded", clock |-> clock, tid |-> tid, msg |-> msg]
BlankLine == [kind |-> "blank", clock |-> <<0, 0, 0>>, tid |-> "None", msg |-> NoMsg]
TextLine == [kind |-> "text", clock |-> <<0, 0, 0>>, tid |-> "None", msg |-> NoMsg]

\* "09:15:00 3201 Transaction no. '00045'", "09:15:05 9999 ...",
\* "09:15:30 3220 end-state'N'"
WalkLines ==
    { Coded(<<9, 15, 0>>, "3201", [NoMsg EXCEPT !.txnno = "00045"]),
      Coded(<<9, 15, 5>>, "9999", NoMsg),
      Coded(<<9, 15, 30>>, "3220", [NoMsg EXCEPT !.state = "N"]) }

RealDict == (<<"COUT">> :> <<"Withdrawal">>) @@ (<<"CIN">> :> <<"Deposit">>)

\* Boundary configurations: plain; the start code configured as a chaining
\* code; an end list that also holds the start code.
WalkConfigs ==
    { [real_dict |-> RealDict, start_key |-> <<"3201">>, end_key |-> <<"3220">>,
       chain_key |-> <<>>],
      [real_dict |-> RealDict, start_key |-> <<"3202">>, end_key |-> <<"3220">>,
       chain_key |-> <<"3201">>],
      [real_dict |-> RealDict, start_key |-> <<"3201">>, end_key |-> <<"3220", "3201">>,
       chain_key |-> <<>>] }

TxnLines ==
    { Coded(<<9, 15, 0>>, "3201", [NoMsg EXCEPT !.txnno = "00045"]),
      Coded(<<23, 59, 50>>, "3201", NoMsg),
      Coded(<<25, 61, 61>>, "3201", [NoMsg EXCEPT !.txnno = "00046"]),
      Coded(<<9, 15, 5>>, "3217", [NoMsg EXCEPT !.func = <<"COUT", "1">>]),
      Coded(<<9, 15, 6>>, "3217", [NoMsg EXCEPT !.func = <<"XFER">>]),
      Coded(<<9, 15, 30>>, "3220", [NoMsg EXCEPT !.state = "N"]),
      Coded(<<0, 0, 10>>, "3220", [NoMsg EXCEPT !.state = "E"]),
      Coded(<<25, 61, 61>>, "3220", NoMsg),
      BlankLine,
      TextLine }

TxnConfigs ==
    { [real_dict |-> RealDict, start_key |-> <<"3201">>, end_key |-> <<"3220">>,
       chain_key |-> <<>>] }

ExtractorStart ==
    /\ df = <<>>
    /\ i = 0 /\ j = 0 /\ start_idx = None /\ end_idx = None
    /\ transactions_bounds = <<>>
    /\ k = 0
    /\ transactions = <<>>
    /\ pc = "parse"
    /\ today = 0
    /\ run = 1
    /\ firstRun = [raised |-> FALSE, transactions |-> <<>>]

AlignerIdle ==
    /\ flow1 = <<>> /\ flow2 = <<>>
    /\ lcs_table = <<>>
    /\ li = 0 /\ lj = 0
    /\ matches1 = <<>> /\ matches2 = <<>>
    /\ lpc = "idle"

RouterIdle ==
    /\ file = [name |-> "", ext |-> "", content |-> <<>>]
    /\ file_type = ""
    /\ file_categories = <<>>
    /\ cpc = "idle"

\* No UI journal is being parsed.
ParserIdle ==
    /\ ui_file = [stem |-> [name |-> "", token |-> ""], lines |-> <<>>]
    /\ ui_k = 0
    /\ processed_lines = {}
    /\ cleaned_lines = <<>>
    /\ parsed_data = <<>>
    /\ ui_df = <<>>
    /\ upc = "idle"

\* No flow operation has run.
FlowIdle ==
    /\ window = [start |-> 0, end |-> 0]
    /\ screen_flow = <<>>
    /\ report_flow = <<>>
    /\ read_flow = <<>>
    /\ side_flow = <<>>
    /\ compare_flow = <<>>
    /\ visual_flow = <<>>
    /\ fpc = "idle"

UiIdle == ParserIdle /\ FlowIdle

\* No batch result has been built.
BatchIdle ==
    /\ response = [total_files |-> 0, categories |-> <<>>]
    /\ summary = [total_transactions |-> 0, successful |-> 0, unsuccessful |-> 0]

\* The boundary walk over every short journal of start, end and other lines.
InitWalk ==
    /\ draft \in {"modules", "root"}
    /\ cfg \in WalkConfigs
    /\ lines \in SeqUpTo(WalkLines, MaxWalkLines)
    /\ ExtractorStart
    /\ AlignerIdle
    /\ RouterIdle
    /\ UiIdle
    /\ BatchIdle

\* The derivation of transaction fields over journals of detailed lines.
InitTxn ==
    /\ draft \in {"modules", "root"}
    /\ cfg \in TxnConfigs
    /\ lines \in SeqUpTo(TxnLines, MaxTxnLines)
    /\ ExtractorStart
    /\ AlignerIdle
    /\ RouterIdle
    /\ UiIdle
    /\ BatchIdle

NextExtract == ExtractorNext

SpecWalk == InitWalk /\ [][NextExtract]_vars
SpecTxn == InitTxn /\ [][NextExtract]_vars

\* ------------------------------------------------------------------------
\* Properties of the boundary walk
\* ------------------------------------------------------------------------
WalkFinished == pc \in {"build", "done", "raised"}
EndsDisjoint ==
    \A n \in 1..Len(cfg.end_key) :
        ~InKeys(cfg.end_key[n], cfg.start_key) /\ ~InKeys(cfg.end_key[n], cfg.chain_key)
Covered(r) ==
    \E n \in 1..Len(transactions_bounds) :
        transactions_bounds[n][1] <= r /\ r <= transactions_bounds[n][2]

\* C1: every segment the boundary walk emits has start_idx < end_idx, and each
\* segment starts strictly after the end of the segment emitted before it, so
\* the emitted line ranges are in increasing order and never overlap; each
\* emitted transaction is built from its segment's lines.
C1_SegmentsOrderedDisjoint ==
    /\ \A n \in 1..Len(transactions_bounds) :
          /\ 0 <= transactions_bounds[n][1]
          /\ transactions_bounds[n][1] < transactions_bounds[n][2]
          /\ transactions_bounds[n][2] < Len(df)
          /\ n > 1 => transactions_bounds[n][1] > transactions_bounds[n - 1][2]
    /\ \A n \in 1..Len(transactions) :
          transactions[n].TransactionLog = Segment(transactions_bounds[n])

\* Two transactions were emitted from one journal.
C1_Witness == pc = "done" /\ Len(transactions) >= 2

\* C2: with end codes disjoint from start/chain codes, once the walk is over
\* every end-marker line that has a start/chain line after the previous end
\* marker (or the file start) closes exactly one segment, and a start/chain
\* line with no end marker after it lies in no segment.
C2_UnterminatedStartHidesNothing ==
    (WalkFinished /\ EndsDisjoint) =>
        /\ \A e \in 0..(Len(df) - 1) :
              (/\ IsEnd(Row(e))
               /\ \E s \in 0..(e - 1) :
                     /\ IsStartOrChain(Row(s))
                     /\ \A m \in (s + 1)..(e - 1) : ~IsEnd(Row(m)))
              => Cardinality({n \in 1..Len(transactions_bounds) :
                                  transactions_bounds[n][2] = e}) = 1
        /\ \A s \in 0..(Len(df) - 1) :
              (/\ IsStartOrChain(Row(s))
               /\ \A m \in (s + 1)..(Len(df) - 1) : ~IsEnd(Row(m)))
              => ~Covered(s)

\* A start whose scan was abandoned lies in no segment, and a later start/end
\* pair was still emitted.
C2_Witness ==
    /\ WalkFinished /\ EndsDisjoint
    /\ \E s \in 0..(Len(df) - 1) :
          /\ IsStartOrChain(Row(s))
          /\ ~Covered(s)
          /\ \E n \in 1..Len(transactions_bounds) : transactions_bounds[n][1] > s

\* ------------------------------------------------------------------------
\* Properties of the emitted transactions
\* ------------------------------------------------------------------------
\* C3 (as stated): no emitted transaction has a missing end time.
C3_NoNullEndTime ==
    \A n \in 1..Len(transactions) : transactions[n].EndTime # None

\* C3 (amended): when extraction completes, every closed segment is emitted;
\* with end codes disjoint from the start/chain codes its End Time is the time
\* of its end-marker line, so a segment whose end-marker line has no
\* resolvable time-of-day is emitted with a null End Time and no computed
\* duration ("N/A" in the modules draft, 0 in the root draft).
C3_UntimedEndIsEmitted ==
    (pc = "done" /\ EndsDisjoint) =>
        /\ Len(transactions) = Len(transactions_bounds)
        /\ \A n \in 1..Len(transactions) :
              /\ transactions[n].EndTime = Row(transactions_bounds[n][2]).timestamp
              /\ transactions[n].EndTime = None =>
                    /\ transactions[n].Duration.secs = 0
                    /\ transactions[n].Duration.avail = (draft = "root")

\* A completed extraction emitted a transaction whose End Time is null.
C3_Witness ==
    /\ pc = "done" /\ EndsDisjoint
    /\ \E n \in 1..Len(transactions) : transactions[n].EndTime = None

\* C7: extracting the same journal twice yields the same ordered transaction
\* list with identical field values, whatever the wall clock reads.
C7_Deterministic ==
    (run = 2 /\ pc \in {"done", "raised"}) => Outcome = firstRun

\* C8: for every emitted transaction with both times, the duration is
\* end - start when that is non-negative and end - start + 86400 otherwise,
\* so it lies in [0, 86400).
C8_DurationWrapped ==
    \A n \in 1..Len(transactions) :
        LET t == transactions[n]
            d == t.EndTime - t.StartTime
        IN  (t.StartTime # None /\ t.EndTime # None) =>
                /\ t.Duration.avail
                /\ t.Duration.secs = IF d >= 0 THEN d ELSE d + 86400
                /\ t.Duration.secs >= 0 /\ t.Duration.secs < 86400

\* C9: the type is the configured name of the function code (the part before
\* '/') of the first 3217 line of the segment that holds a Function token,
\* the raw code when unmapped, "Unknown" when the segment has no such line.
C9_TypeFromFunctionCode ==
    \A n \in 1..Len(transactions) :
        LET fr == FuncRows(transactions[n].TransactionLog)
            code == <<Head(fr).message.func[1]>>
        IN  transactions[n].TransactionType =
                IF fr = <<>> THEN <<"Unknown">>
                ELSE IF code \in DOMAIN cfg.real_dict THEN cfg.real_dict[code]
                ELSE code

\* ------------------------------------------------------------------------
\* Further properties of the boundary walk
\* ------------------------------------------------------------------------
\* The scan of the candidate at i stopped at line j without an end marker
\* and before the end of the input.
Abandoned == pc = "close" /\ end_idx = None /\ j < Len(df)

\* C21: while scanning forward from a candidate start at i, a start/chain-coded
\* line at j abandons the search exactly when j > i + 3 and no end marker was
\* found up to j (the end test comes first); a start/chain line at i + 1,
\* i + 2 or i + 3 is absorbed.  Hence no emitted segment holds a start/chain
\* line more than 3 lines after its first line and before its end line.
C21_AbandonAfterThreeLines ==
    /\ pc = "inner" =>
          \A m \in (i + 1)..(j - 1) :
              /\ ~IsEnd(Row(m))
              /\ IsStartOrChain(Row(m)) => m <= i + 3
    /\ Abandoned =>
          /\ IsStartOrChain(Row(j)) /\ ~IsEnd(Row(j))
          /\ j > i + 3
          /\ \A m \in (i + 1)..(j - 1) : ~IsEnd(Row(m))
    /\ \A n \in 1..Len(transactions_bounds) :
          \A m \in (transactions_bounds[n][1] + 4)..(transactions_bounds[n][2] - 1) :
              ~IsStartOrChain(Row(m))

\* A scan absorbed a start/chain line within 3 lines of its candidate and
\* was abandoned at a later one.
C21_Witness ==
    /\ Abandoned
    /\ \E m \in (i + 1)..(i + 3) : IsStartOrChain(Row(m))

\* The interpreter runs the walk's next statement whenever there is one.
WalkFairness ==
    /\ WF_vars(Parse)
    /\ WF_vars(OuterStep)
    /\ WF_vars(InnerStep)
    /\ WF_vars(CloseSegment)

\* The journals of the boundary walk, for the check of termination.
InitWalkFair ==
    /\ draft \in {"modules", "root"}
    /\ cfg \in WalkConfigs
    /\ lines \in SeqUpTo(WalkLines, MaxFairLines)
    /\ ExtractorStart
    /\ AlignerIdle
    /\ RouterIdle
    /\ UiIdle
    /\ BatchIdle

SpecWalkFair == InitWalkFair /\ [][NextExtract]_vars /\ WalkFairness

\* One pass of the outer loop moves i forward (by 1, or to end_idx + 1) and
\* not past the end of the input; one pass of the inner loop moves j forward
\* by 1 and not past the end of the input.
WalkAdvances ==
    /\ (pc = "outer" /\ pc' = "outer") => i' = i + 1 /\ i' <= Len(df)
    /\ (pc = "close" /\ pc' = "outer") =>
           /\ i' > i /\ i' <= Len(df)
           /\ i' = (IF end_idx # None THEN end_idx + 1 ELSE i + 1)
    /\ (pc = "inner" /\ pc' = "inner") => j' = j + 1 /\ j' <= Len(df)

\* C25: the boundary walk terminates on every finite parsed-line sequence and
\* configuration: every pass of the outer loop strictly increases i (by 1, or
\* to end_idx + 1 > i), every pass of the inner scan strictly increases j up
\* to the line count, and the walk always reaches the end of the input.
C25_WalkTerminates ==
    /\ [][WalkAdvances]_vars
    /\ (pc \in {"parse", "outer", "inner", "close"}) ~> (WalkFinished /\ i = Len(df))

\* A walk is over that closed a segment and gave up a candidate.
C25_Witness ==
    /\ pc = "build" /\ i = Len(df)
    /\ Len(transactions_bounds) >= 1
    /\ \E s \in 0..(Len(df) - 1) : IsStartOrChain(Row(s)) /\ ~Covered(s)

\* ------------------------------------------------------------------------
\* Start details: journals with two start codes and a chaining code
\* ------------------------------------------------------------------------
\* "09:14:55 3202 ...", "09:15:00 3201 Transaction no. '00045'",
\* "25:61:61 3201 ...", "25:61:61 3201 Transaction no. '00046'",
\* "09:15:02 3203 ...", "09:15:30 3220 end-state'N'"
StartLines ==
    { Coded(<<9, 14, 55>>, "3202", NoMsg),
      Coded(<<9, 15, 0>>, "3201", [NoMsg EXCEPT !.txnno = "00045"]),
      Coded(<<25, 61, 61>>, "3201", NoMsg),
      Coded(<<25, 61, 61>>, "3201", [NoMsg EXCEPT !.txnno = "00046"]),
      Coded(<<9, 15, 2>>, "3203", NoMsg),
      Coded(<<9, 15, 30>>, "3220", [NoMsg EXCEPT !.state = "N"]) }

\* <starttransaction>3201,3202</starttransaction>
\* <endtransaction>3220</endtransaction>
\* <chainingtransaction>3203</chainingtransaction>
StartConfigs ==
    { [real_dict |-> RealDict, start_key |-> <<"3201", "3202">>, end_key |-> <<"3220">>,
       chain_key |-> <<"3203">>] }

InitStart ==
    /\ draft \in {"modules", "root"}
    /\ cfg \in StartConfigs
    /\ lines \in SeqUpTo(StartLines, MaxStartLines)
    /\ ExtractorStart
    /\ AlignerIdle
    /\ RouterIdle
    /\ UiIdle
    /\ BatchIdle

SpecStart == InitStart /\ [][NextExtract]_vars

\* The rows of a segment whose code is in keys, in line order.
RowsIn(seg, keys) == SelectSeq(seg, LAMBDA r : InKeys(r.tid, keys))

\* C22: the start time of every emitted transaction is the time of the
\* earliest line, in line order, of its segment whose code is a start code;
\* only when the segment has no such line is it the time of the earliest line
\* whose code is a chaining code.
C22_StartTimeOfEarliestStartLine ==
    \A n \in 1..Len(transactions) :
        LET seg == transactions[n].TransactionLog
            starts == RowsIn(seg, cfg.start_key)
            chains == RowsIn(seg, cfg.chain_key)
        IN  transactions[n].StartTime =
                IF starts # <<>> THEN Head(starts).timestamp
                ELSE IF chains # <<>> THEN Head(chains).timestamp
                ELSE None

\* C23: a malformed start line (digits that are no clock time, no transaction
\* number) does not abort the extraction of its file: parse_customer_journal
\* returns, and what it returns holds the transaction of every closed segment
\* whose own start line is well formed.
C23_MalformedStartIsolated ==
    pc \in {"done", "raised"} =>
        /\ ~Outcome.raised
        /\ \A n \in 1..Len(transactions_bounds) :
              ~StartDetails(Segment(transactions_bounds[n])).raised =>
                  \E t \in 1..Len(Outcome.transactions) :
                      Outcome.transactions[t].TransactionLog = Segment(transactions_bounds[n])

\* C27: no two transactions emitted from one journal file share a
\* Transaction ID, whether taken from a "Transaction no. 'X'" token or
\* synthesized from the source stem and the start time as HHMMSS.
C27_TransactionIdsUnique ==
    \A m, n \in 1..Len(transactions) :
        m # n => transactions[m].TransactionID # transactions[n].TransactionID

\* ------------------------------------------------------------------------
\* Flow aligner: find_lcs_matches
\* ------------------------------------------------------------------------
Max2(a, b) == IF a >= b THEN a ELSE b

\* lcs_table = [[0] * (n + 1) for _ in range(m + 1)]
ZeroTable(m, n) == [r \in 0..m |-> [c \in 0..n |-> 0]]

\* Entry of find_lcs_matches: m, n and the zeroed table.
LcsStart ==
    /\ lpc = "start"
    /\ UNCHANGED <<extractorVars, routerVars, uiVars, batchVars>>
    /\ lcs_table' = ZeroTable(Len(flow1), Len(flow2))
    /\ li' = 1 /\ lj' = 1
    /\ lpc' = "fill"
    /\ UNCHANGED <<flow1, flow2, matches1, matches2>>

\* CellValue when a mismatch takes the smaller of the two neighbours.
CellValueMin(r, c) ==
    IF flow1[r] = flow2[c]
    THEN lcs_table[r - 1][c - 1] + 1
    ELSE IF lcs_table[r - 1][c] <= lcs_table[r][c - 1]
    THEN lcs_table[r - 1][c] ELSE lcs_table[r][c - 1]

\* The value the fill loop stores in lcs_table[r][c].
CellValue(r, c) ==
    IF flow1[r] = flow2[c]
    THEN lcs_table[r - 1][c - 1] + 1
    ELSE Max2(lcs_table[r - 1][c], lcs_table[r][c - 1])

\* One pass through the body of the nested fill loops.
FillCell ==
    /\ lpc = "fill"
    /\ UNCHANGED <<extractorVars, routerVars, uiVars, batchVars>>
    /\ li <= Len(flow1) /\ Len(flow2) >= 1
    /\ lcs_table' = [lcs_table EXCEPT ![li][lj] = CellValue(li, lj)]
    /\ IF lj < Len(flow2)
       THEN lj' = lj + 1 /\ UNCHANGED li
       ELSE lj' = 1 /\ li' = li + 1
    /\ UNCHANGED <<flow1, flow2, matches1, matches2, lpc>>

\* The fill loops are over: masks all False, i, j = m, n.
FillDone ==
    /\ lpc = "fill"
    /\ UNCHANGED <<extractorVars, routerVars, uiVars, batchVars>>
    /\ li > Len(flow1) \/ Len(flow2) = 0
    /\ matches1' = [r \in 1..Len(flow1) |-> FALSE]
    /\ matches2' = [c \in 1..Len(flow2) |-> FALSE]
    /\ li' = Len(flow1) /\ lj' = Len(flow2)
    /\ lpc' = "backtrack"
    /\ UNCHANGED <<flow1, flow2, lcs_table>>

\* BacktrackStep when a match forgets to step B's pointer.
BacktrackStepKeepJ ==
    /\ lpc = "backtrack"
    /\ UNCHANGED <<extractorVars, routerVars, uiVars, batchVars>>
    /\ li > 0 /\ lj > 0
    /\ IF flow1[li] = flow2[lj]
       THEN /\ matches1' = [matches1 EXCEPT ![li] = TRUE]
            /\ matches2' = [matches2 EXCEPT ![lj] = TRUE]
            /\ li' = li - 1
            /\ UNCHANGED lj
       ELSE IF lcs_table[li - 1][lj] > lcs_table[li][lj - 1]
       THEN /\ li' = li - 1
            /\ UNCHANGED <<lj, matches1, matches2>>
       ELSE /\ lj' = lj - 1
            /\ UNCHANGED <<li, matches1, matches2>>
    /\ UNCHANGED <<flow1, flow2, lcs_table, lpc>>

\* BacktrackStep when the comparison is >=, so that a tie moves up.
BacktrackStepTieUp ==
    /\ lpc = "backtrack"
    /\ UNCHANGED <<extractorVars, routerVars, uiVars, batchVars>>
    /\ li > 0 /\ lj > 0
    /\ IF flow1[li] = flow2[lj]
       THEN /\ matches1' = [matches1 EXCEPT ![li] = TRUE]
            /\ matches2' = [matches2 EXCEPT ![lj] = TRUE]
            /\ li' = li - 1
            /\ lj' = lj - 1
       ELSE IF lcs_table[li - 1][lj] >= lcs_table[li][lj - 1]
       THEN /\ li' = li - 1
            /\ UNCHANGED <<lj, matches1, matches2>>
       ELSE /\ lj' = lj - 1
            /\ UNCHANGED <<li, matches1, matches2>>
    /\ UNCHANGED <<flow1, flow2, lcs_table, lpc>>

\* One pass through the body of "while i > 0 and j > 0".
BacktrackStep ==
    /\ lpc = "backtrack"
    /\ UNCHANGED <<extractorVars, routerVars, uiVars, batchVars>>
    /\ li > 0 /\ lj > 0
    /\ IF flow1[li] = flow2[lj]
       THEN /\ matches1' = [matches1 EXCEPT ![li] = TRUE]
            /\ matches2' = [matches2 EXCEPT ![lj] = TRUE]
            /\ li' = li - 1
            /\ lj' = lj - 1
       ELSE IF lcs_table[li - 1][lj] > lcs_table[li][lj - 1]
       THEN /\ li' = li - 1
            /\ UNCHANGED <<lj, matches1, matches2>>
       ELSE /\ lj' = lj - 1
            /\ UNCHANGED <<li, matches1, matches2>>
    /\ UNCHANGED <<flow1, flow2, lcs_table, lpc>>

\* "return matches1, matches2"
LcsReturn ==
    /\ lpc = "backtrack"
    /\ UNCHANGED <<extractorVars, routerVars, uiVars, batchVars>>
    /\ ~(li > 0 /\ lj > 0)
    /\ lpc' = "done"
    /\ UNCHANGED <<flow1, flow2, lcs_table, li, lj, matches1, matches2>>

Screens == {"x", "y", "z"}
ScenarioFlowA == <<"Login", "Menu", "Withdraw", "Receipt">>
ScenarioFlowB == <<"Login", "Balance", "Menu", "Receipt">>

\* Every pair of short screen lists, and the Login/Menu/Withdraw/Receipt pair.
InitLcs ==
    /\ \/ /\ flow1 \in SeqUpTo(Screens, MaxFlowLen)
          /\ flow2 \in SeqUpTo(Screens, MaxFlowLen)
       \/ /\ flow1 = ScenarioFlowA
          /\ flow2 = ScenarioFlowB
    /\ lcs_table = <<>>
    /\ li = 0 /\ lj = 0
    /\ matches1 = <<>> /\ matches2 = <<>>
    /\ lpc = "start"
    /\ ExtractorIdle
    /\ RouterIdle
    /\ UiIdle
    /\ BatchIdle

NextLcs ==
    \/ LcsStart
    \/ FillCell
    \/ FillDone
    \/ BacktrackStep
    \/ LcsReturn

SpecLcs == InitLcs /\ [][NextLcs]_vars

\* ------------------------------------------------------------------------
\* Properties of the flow aligner
\* ------------------------------------------------------------------------
\* The marked positions of a mask, in increasing order.
TruePositions(mask) ==
    SelectSeq([n \in 1..Len(mask) |-> n], LAMBDA n : mask[n])

\* The elements of seq at the positions in S, in order.
Pick(seq, S) == SelectSeq([n \in 1..Len(seq) |-> n], LAMBDA n : n \in S)

RECURSIVE IsSubsequence(_, _)
IsSubsequence(a, b) ==
    IF a = <<>> THEN TRUE
    ELSE IF b = <<>> THEN FALSE
    ELSE IF Head(a) = Head(b) THEN IsSubsequence(Tail(a), Tail(b))
    ELSE IsSubsequence(a, Tail(b))

\* The sizes of the position sets of a whose elements, in order, form a
\* subsequence of b: the lengths of the common subsequences.
CommonLengths(a, b) ==
    {Cardinality(S) : S \in {T \in SUBSET (1..Len(a)) :
                                 IsSubsequence([n \in 1..Len(Pick(a, T)) |-> a[Pick(a, T)[n]]], b)}}

LongestCommon(a, b) == CHOOSE n \in CommonLengths(a, b) : \A q \in CommonLengths(a, b) : q <= n

\* C4: the masks have the lengths of their lists and the same number of
\* marked positions, and the k-th marked position of A holds the same screen
\* as the k-th marked position of B.
C4_MasksFormCommonSubsequence ==
    lpc = "done" =>
        /\ Len(matches1) = Len(flow1)
        /\ Len(matches2) = Len(flow2)
        /\ Len(TruePositions(matches1)) = Len(TruePositions(matches2))
        /\ \A n \in 1..Len(TruePositions(matches1)) :
              n <= Len(TruePositions(matches2)) =>
                  flow1[TruePositions(matches1)[n]] = flow2[TruePositions(matches2)[n]]

\* An alignment ended with two matched pairs and an unmatched screen on each side.
C4_Witness ==
    /\ lpc = "done"
    /\ Len(TruePositions(matches1)) >= 2
    /\ \E n \in 1..Len(matches1) : ~matches1[n]
    /\ \E n \in 1..Len(matches2) : ~matches2[n]

\* C5: the number of marked positions is the length of a longest common
\* subsequence of the two lists; the Login/Menu/Withdraw/Receipt scenario
\* marks Login, Menu and Receipt on both sides.
C5_MatchCountIsLcsLength ==
    lpc = "done" =>
        /\ Len(TruePositions(matches1)) = LongestCommon(flow1, flow2)
        /\ Len(TruePositions(matches2)) = LongestCommon(flow1, flow2)
        /\ (flow1 = ScenarioFlowA /\ flow2 = ScenarioFlowB) =>
              /\ matches1 = <<TRUE, TRUE, FALSE, TRUE>>
              /\ matches2 = <<TRUE, FALSE, TRUE, TRUE>>

\* The scenario pair was aligned.
C5_Witness ==
    /\ lpc = "done"
    /\ flow1 = ScenarioFlowA /\ flow2 = ScenarioFlowB
    /\ Len(TruePositions(matches1)) = 3

\* A backtrack position where the screens differ and up and left tie.
BacktrackTie ==
    /\ lpc = "backtrack" /\ li > 0 /\ lj > 0
    /\ flow1[li] # flow2[lj]
    /\ lcs_table[li - 1][lj] = lcs_table[li][lj - 1]

\* C6 (as stated): on a tie between differing screens the backtrack moves up,
\* decrementing A's pointer and not B's.
C6_TieMovesUp == [][BacktrackTie => (li' = li - 1 /\ lj' = lj)]_vars

\* C6 (amended): on a tie between differing screens the backtrack moves left,
\* decrementing B's pointer and not A's; for A = [x, y], B = [y, x] the
\* position marked in A is y.
C6_TieMovesLeft ==
    /\ [][BacktrackTie => (li' = li /\ lj' = lj - 1)]_vars
    /\ [](( lpc = "done" /\ flow1 = <<"x", "y">> /\ flow2 = <<"y", "x">>) =>
            (matches1 = <<FALSE, TRUE>> /\ matches2 = <<TRUE, FALSE>>))

\* [x, y] against [y, x] was aligned, through a tie, and y is marked in A.
C6_Witness ==
    /\ lpc = "done"
    /\ flow1 = <<"x", "y">> /\ flow2 = <<"y", "x">>
    /\ matches1 = <<FALSE, TRUE>>

\* ------------------------------------------------------------------------
\* Signature matcher and file classifier (configManager.py)
\* ------------------------------------------------------------------------
\* A line is the record of what each regular expression and string test of
\* the scorers finds in it.
NoFeature ==
    [blank |-> FALSE, stars |-> FALSE,
     dir |-> FALSE, viewid |-> FALSE, sep |-> FALSE, json |-> FALSE, lead |-> FALSE,
     basic |-> FALSE, bonus |-> FALSE,
     tsms |-> FALSE, pid |-> FALSE, data |-> FALSE,
     hdr |-> FALSE, marker |-> FALSE]

\* ""
ShapeBlank == [NoFeature EXCEPT !.blank = TRUE]
\* "09:15:00 12 GUIAPP > [5] - Menu result:{"a":1}"
ShapeUi == [NoFeature EXCEPT !.dir = TRUE, !.viewid = TRUE, !.sep = TRUE, !.json = TRUE,
                             !.lead = TRUE, !.basic = TRUE]
\* "09:15:00 3201 Transaction no. '00045'"
ShapeCustomer == [NoFeature EXCEPT !.basic = TRUE, !.bonus = TRUE]
\* "some free text"
ShapeText == NoFeature
\* "0001 250404 09:15:00.12 MOD DEV PID:1.2 Data:5"
ShapeTrace == [NoFeature EXCEPT !.tsms = TRUE, !.pid = TRUE, !.data = TRUE]
\* "01/02 250404 09:15:00.123 Err Mod PID:1.2 Data:3"
ShapeErrorHeader == [NoFeature EXCEPT !.hdr = TRUE, !.tsms = TRUE, !.pid = TRUE, !.data = TRUE]
\* "*** Running", "Created by ...", "Process Information:"
ShapeMarker == [NoFeature EXCEPT !.marker = TRUE]
\* "*****"
ShapeStars == [NoFeature EXCEPT !.stars = TRUE]

ShapeList == <<ShapeBlank, ShapeUi, ShapeCustomer, ShapeText, ShapeTrace,
               ShapeErrorHeader, ShapeMarker, ShapeStars>>

B2N(b) == IF b THEN 1 ELSE 0

\* Each scorer loops over the lines and counts those that pass its test.

UiIndicators(l) == B2N(l.dir) + B2N(l.viewid) + B2N(l.sep) + B2N(l.json) + B2N(l.lead)
IsUiLine(l) == ~l.blank /\ UiIndicators(l) >= 4
detect_ui_journal_pattern(ls) == Cardinality({n \in 1..Len(ls) : IsUiLine(ls[n])})

NonUiIndicators(l) ==
    B2N(~l.dir) + B2N(~l.viewid) + B2N(~l.sep) + B2N(~l.json) + B2N(l.bonus)
\* IsCustomerLine when two non-UI indicators are enough.
IsCustomerLineTwo(l) == ~l.blank /\ ~l.stars /\ l.basic /\ NonUiIndicators(l) >= 2
IsCustomerLine(l) == ~l.blank /\ ~l.stars /\ l.basic /\ NonUiIndicators(l) >= 4
detect_customer_journal_pattern(ls) == Cardinality({n \in 1..Len(ls) : IsCustomerLine(ls[n])})

IsTraceLine(l) == ~l.blank /\ l.tsms /\ l.pid /\ l.data
detect_trc_trace_pattern(ls) == Cardinality({n \in 1..Len(ls) : IsTraceLine(ls[n])})

IsErrorLine(l) == ~l.blank /\ (l.hdr \/ l.marker)
detect_trc_error_pattern(ls) == Cardinality({n \in 1..Len(ls) : IsErrorLine(ls[n])})

IsErrorHeader(l) == ~l.blank /\ l.hdr
count_trc_error_headers(ls) == Cardinality({n \in 1..Len(ls) : IsErrorHeader(ls[n])})

\* non_empty_lines = [line for line in lines if line.strip()]
IsNonEmpty(l) == ~l.blank
NonEmptyCount(ls) == Cardinality({n \in 1..Len(ls) : IsNonEmpty(ls[n])})

NonLogExts == {".py", ".js", ".html", ".css", ".json", ".xml", ".txt", ".xlsx", ".xls",
               ".csv", ".pdf", ".doc", ".docx"}
Unidentified ==
    "Unidentified: File format does not match any known patterns with sufficient confidence"
Insufficient == "Insufficient data: File contains less than 5 non-empty lines"
CouldNotRead == "Error: Could not read file"
NotFound == "Error: File not found"
UnidentifiedPrn ==
    "Unidentified: .prn file does not match TRC patterns with sufficient confidence"
UnidentifiedJrn ==
    "Unidentified: .jrn file does not match Journal patterns with sufficient confidence"

\* A threshold that lets files of four matching lines through.
MinMatchesLow == 5 - 1
\* The threshold of 5 non-empty lines and of 5 matches.
MinMatches == 5
\* The threshold of 10 matches for a file that is neither .prn nor .jrn.
StrictMatchesLow == 10 - 1
StrictMatches == 10

Max4(a, b, c, d) == Max2(Max2(a, b), Max2(c, d))

\* The extension-specific part of detect_file_type, reached with max >= 5.
\* The .prn branch without the precedence of strict headers.
ByExtensionNoHeaderRule(ext, ls, ui, cust, trc, err) ==
    LET mx == Max4(ui, cust, trc, err)
    IN  IF ext = ".prn"
        THEN IF err = mx THEN "TRC Error (.prn)"
             ELSE IF trc = mx THEN "TRC Trace (.prn)"
             ELSE IF err >= MinMatches THEN "TRC Error (.prn)"
             ELSE IF trc >= MinMatches THEN "TRC Trace (.prn)"
             ELSE UnidentifiedPrn
        ELSE IF ext = ".jrn"
        THEN IF ui = mx THEN "UI Journal (.jrn)"
             ELSE IF cust = mx THEN "Customer Journal (.jrn)"
             ELSE IF ui >= MinMatches THEN "UI Journal (.jrn)"
             ELSE IF cust >= MinMatches THEN "Customer Journal (.jrn)"
             ELSE UnidentifiedJrn
        ELSE IF err = mx /\ mx >= StrictMatches THEN "TRC Error (.prn/.log)"
             ELSE IF ui = mx /\ mx >= StrictMatches THEN "UI Journal (.jrn)"
             ELSE IF cust = mx /\ mx >= StrictMatches THEN "Customer Journal (.jrn)"
             ELSE IF trc = mx /\ mx >= StrictMatches THEN "TRC Trace (.prn)"
             ELSE Unidentified

\* ByExtension when a .prn file without a TRC score of 5 falls back on its
\* journal scores.
ByExtensionJournalFallback(ext, ls, ui, cust, trc, err) ==
    LET mx == Max4(ui, cust, trc, err)
    IN  IF ext = ".prn"
        THEN IF count_trc_error_headers(ls) >= MinMatches THEN "TRC Error (.prn)"
             ELSE IF err = mx THEN "TRC Error (.prn)"
             ELSE IF trc = mx THEN "TRC Trace (.prn)"
             ELSE IF err >= MinMatches THEN "TRC Error (.prn)"
             ELSE IF trc >= MinMatches THEN "TRC Trace (.prn)"
             ELSE IF ui = mx THEN "UI Journal (.jrn)"
             ELSE IF cust = mx THEN "Customer Journal (.jrn)"
             ELSE UnidentifiedPrn
        ELSE IF ext = ".jrn"
        THEN IF ui = mx THEN "UI Journal (.jrn)"
             ELSE IF cust = mx THEN "Customer Journal (.jrn)"
             ELSE IF ui >= MinMatches THEN "UI Journal (.jrn)"
             ELSE IF cust >= MinMatches THEN "Customer Journal (.jrn)"
             ELSE UnidentifiedJrn
        ELSE IF err = mx /\ mx >= StrictMatches THEN "TRC Error (.prn/.log)"
             ELSE IF ui = mx /\ mx >= StrictMatches THEN "UI Journal (.jrn)"
             ELSE IF cust = mx /\ mx >= StrictMatches THEN "Customer Journal (.jrn)"
             ELSE IF trc = mx /\ mx >= StrictMatches THEN "TRC Trace (.prn)"
             ELSE Unidentified

\* The .jrn branch with the customer journal tried before the UI journal.
ByExtensionCustomerFirst(ext, ls, ui, cust, trc, err) ==
    LET mx == Max4(ui, cust, trc, err)
    IN  IF ext = ".prn"
        THEN IF count_trc_error_headers(ls) >= MinMatches THEN "TRC Error (.prn)"
             ELSE IF err = mx THEN "TRC Error (.prn)"
             ELSE IF trc = mx THEN "TRC Trace (.prn)"
             ELSE IF err >= MinMatches THEN "TRC Error (.prn)"
             ELSE IF trc >= MinMatches THEN "TRC Trace (.prn)"
             ELSE UnidentifiedPrn
        ELSE IF ext = ".jrn"
        THEN IF cust = mx THEN "Customer Journal (.jrn)"
             ELSE IF ui = mx THEN "UI Journal (.jrn)"
             ELSE IF cust >= MinMatches THEN "Customer Journal (.jrn)"
             ELSE IF ui >= MinMatches THEN "UI Journal (.jrn)"
             ELSE UnidentifiedJrn
        ELSE IF err = mx /\ mx >= StrictMatches THEN "TRC Error (.prn/.log)"
             ELSE IF ui = mx /\ mx >= StrictMatches THEN "UI Journal (.jrn)"
             ELSE IF cust = mx /\ mx >= StrictMatches THEN "Customer Journal (.jrn)"
             ELSE IF trc = mx /\ mx >= StrictMatches THEN "TRC Trace (.prn)"
             ELSE Unidentified

ByExtension(ext, ls, ui, cust, trc, err) ==
    LET mx == Max4(ui, cust, trc, err)
    IN  IF ext = ".prn"
        THEN IF count_trc_error_headers(ls) >= MinMatches THEN "TRC Error (.prn)"
             ELSE IF err = mx THEN "TRC Error (.prn)"
             ELSE IF trc = mx THEN "TRC Trace (.prn)"
             ELSE IF err >= MinMatches THEN "TRC Error (.prn)"
             ELSE IF trc >= MinMatches THEN "TRC Trace (.prn)"
             ELSE UnidentifiedPrn
        ELSE IF ext = ".jrn"
        THEN IF ui = mx THEN "UI Journal (.jrn)"
             ELSE IF cust = mx THEN "Customer Journal (.jrn)"
             ELSE IF ui >= MinMatches THEN "UI Journal (.jrn)"
             ELSE IF cust >= MinMatches THEN "Customer Journal (.jrn)"
             ELSE UnidentifiedJrn
        ELSE IF err = mx /\ mx >= StrictMatches THEN "TRC Error (.prn/.log)"
             ELSE IF ui = mx /\ mx >= StrictMatches THEN "UI Journal (.jrn)"
             ELSE IF cust = mx /\ mx >= StrictMatches THEN "Customer Journal (.jrn)"
             ELSE IF trc = mx /\ mx >= StrictMatches THEN "TRC Trace (.prn)"
             ELSE Unidentified

detect_file_type(f) ==
    IF ~f.exists THEN NotFound
    ELSE IF f.ext \in NonLogExts THEN Unidentified
    ELSE IF ~f.readable THEN CouldNotRead
    ELSE IF NonEmptyCount(f.content) < MinMatches THEN Insufficient
    ELSE LET ui == detect_ui_journal_pattern(f.content)
             cust == detect_customer_journal_pattern(f.content)
             trc == detect_trc_trace_pattern(f.content)
             err == detect_trc_error_pattern(f.content)
         IN  IF Max4(ui, cust, trc, err) < MinMatches THEN Unidentified
             ELSE ByExtension(f.ext, f.content, ui, cust, trc, err)

\* ------------------------------------------------------------------------
\* Category router (categorization.py)
\* ------------------------------------------------------------------------
\* The return values of detect_file_type that contain the given substring.
LabelsMentioning(sub) ==
    IF sub = "Customer Journal" THEN {"Customer Journal (.jrn)"}
    ELSE IF sub = "UI Journal" THEN {"UI Journal (.jrn)"}
    ELSE IF sub = "TRC Trace" THEN {"TRC Trace (.prn)"}
    ELSE IF sub = "TRC Error" THEN {"TRC Error (.prn)", "TRC Error (.prn/.log)"}
    ELSE {}

\* sub in file_type
Mentions(label, sub) == label \in LabelsMentioning(sub)

NoCategory == ""

\* The mapping at the end of _detect_category.
CategoryOfType(label) ==
    IF Mentions(label, "Customer Journal") THEN "customer_journals"
    ELSE IF Mentions(label, "UI Journal") THEN "ui_journals"
    ELSE IF Mentions(label, "TRC Trace") THEN "trc_trace"
    ELSE IF Mentions(label, "TRC Error") THEN "trc_error"
    ELSE NoCategory

\* file_name_lower.endswith('.reg'), or endswith('.txt') with 'reg' in the name
IsRegistryName(f) == f.ext = ".reg" \/ (f.ext = ".txt" /\ f.stem_has_reg)

EmptyCategories ==
    [customer_journals |-> <<>>, ui_journals |-> <<>>, trc_trace |-> <<>>,
     trc_error |-> <<>>, registry_files |-> <<>>]

\* The file-name checks with the '.txt' rule left out.
NameCheckRegOnly ==
    /\ cpc = "name"
    /\ UNCHANGED <<extractorVars, alignerVars, uiVars, batchVars>>
    /\ IF file.ext = ".reg"
       THEN /\ file_categories' =
                  [file_categories EXCEPT !.registry_files = Append(@, file)]
            /\ cpc' = "done"
       ELSE /\ cpc' = "classify"
            /\ UNCHANGED file_categories
    /\ UNCHANGED <<file, file_type>>

\* _detect_category, the file-name checks: a registry name is bucketed without
\* running the classifier.
NameCheck ==
    /\ cpc = "name"
    /\ UNCHANGED <<extractorVars, alignerVars, uiVars, batchVars>>
    /\ IF IsRegistryName(file)
       THEN /\ file_categories' =
                  [file_categories EXCEPT !.registry_files = Append(@, file)]
            /\ cpc' = "done"
       ELSE /\ cpc' = "classify"
            /\ UNCHANGED file_categories
    /\ UNCHANGED <<file, file_type>>

\* file_type = detect_file_type(str(file_path))
Classify ==
    /\ cpc = "classify"
    /\ UNCHANGED <<extractorVars, alignerVars, uiVars, batchVars>>
    /\ file_type' = detect_file_type(file)
    /\ cpc' = "route"
    /\ UNCHANGED <<file, file_categories>>

\* The mapping of file_type to a category and "if category: append".
Route ==
    /\ cpc = "route"
    /\ UNCHANGED <<extractorVars, alignerVars, uiVars, batchVars>>
    /\ IF CategoryOfType(file_type) # NoCategory
       THEN file_categories' =
                [file_categories EXCEPT ![CategoryOfType(file_type)] = Append(@, file)]
       ELSE UNCHANGED file_categories
    /\ cpc' = "done"
    /\ UNCHANGED <<file, file_type>>

\* Sequences over 1..n of length at most len whose entries never decrease:
\* one ordering of every multiset of lines (the scorers count per line).
RECURSIVE NonDecreasing(_, _)
NonDecreasing(n, len) ==
    IF len = 0 THEN {<<>>}
    ELSE LET shorter == NonDecreasing(n, len - 1)
         IN  shorter \cup
             {Append(q, x) : <<q, x>> \in
                 {w \in shorter \X (1..n) :
                     /\ Len(w[1]) = len - 1
                     /\ (w[1] = <<>> \/ w[1][Len(w[1])] <= w[2])}}

Contents == {[n \in 1..Len(q) |-> ShapeList[q[n]]] : q \in NonDecreasing(Len(ShapeList), MaxFileLines)}

Extensions == {".prn", ".jrn", ".log", ".txt", ".reg", ""}

\* Every existing file of a few lines, under every extension.
InitRouter ==
    /\ file \in [stem_has_reg : BOOLEAN, ext : Extensions, exists : {TRUE},
                 readable : BOOLEAN, content : Contents]
    /\ file_type = ""
    /\ file_categories = EmptyCategories
    /\ cpc = "name"
    /\ ExtractorIdle
    /\ AlignerIdle
    /\ UiIdle
    /\ BatchIdle

NextRouter ==
    \/ NameCheck
    \/ Classify
    \/ Route

SpecRouter == InitRouter /\ [][NextRouter]_vars

\* ------------------------------------------------------------------------
\* Properties of the classifier and the router
\* ------------------------------------------------------------------------
FamilyLabels ==
    {"Customer Journal (.jrn)", "UI Journal (.jrn)", "TRC Trace (.prn)",
     "TRC Error (.prn)", "TRC Error (.prn/.log)"}

ShapeErrorHeaderShort == [NoFeature EXCEPT !.hdr = TRUE, !.pid = TRUE, !.data = TRUE]

ScoreShapeList == <<ShapeUi, ShapeCustomer, ShapeTrace, ShapeErrorHeader,
                    ShapeErrorHeaderShort, ShapeMarker>>

ScoreContents ==
    {[n \in 1..Len(q) |-> ScoreShapeList[q[n]]] :
        q \in NonDecreasing(Len(ScoreShapeList), MaxScoreLines)}

\* Readable files of lines that each count for some family, under the
\* extensions the classifier tells apart.
InitScores ==
    /\ file \in [stem_has_reg : {FALSE}, ext : {".prn", ".jrn", ".log"}, exists : {TRUE},
                 readable : {TRUE}, content : ScoreContents]
    /\ file_type = ""
    /\ file_categories = EmptyCategories
    /\ cpc = "name"
    /\ ExtractorIdle
    /\ AlignerIdle
    /\ UiIdle
    /\ BatchIdle

SpecScores == InitScores /\ [][NextRouter]_vars

Classified == cpc \in {"route", "done"}

MaxScore(ls) ==
    Max4(detect_ui_journal_pattern(ls), detect_customer_journal_pattern(ls),
         detect_trc_trace_pattern(ls), detect_trc_error_pattern(ls))

\* The score of the family a label names.
ScoreOfLabel(label, ls) ==
    IF label = "UI Journal (.jrn)" THEN detect_ui_journal_pattern(ls)
    ELSE IF label = "Customer Journal (.jrn)" THEN detect_customer_journal_pattern(ls)
    ELSE IF label = "TRC Trace (.prn)" THEN detect_trc_trace_pattern(ls)
    ELSE detect_trc_error_pattern(ls)

\* C11: a readable .prn file with at least 5 non-empty lines of which at
\* least 5 match the strict TRC error header is labelled TRC Error, whatever
\* the four scores are.
C11_StrictHeadersWin ==
    (/\ Classified
     /\ file.ext = ".prn" /\ file.readable
     /\ NonEmptyCount(file.content) >= 5
     /\ count_trc_error_headers(file.content) >= 5)
        => file_type = "TRC Error (.prn)"

\* A .prn file with 5 strict headers whose trace score is above its error
\* score was labelled and routed.
C11_Witness ==
    /\ cpc = "done"
    /\ file.ext = ".prn"
    /\ count_trc_error_headers(file.content) >= 5
    /\ detect_trc_trace_pattern(file.content) > detect_trc_error_pattern(file.content)
    /\ file_type = "TRC Error (.prn)"
    /\ file_categories.trc_error = <<file>>

\* C12: for an extension that is neither .prn nor .jrn nor a non-log one, a
\* family label is returned only if that family's score is the maximum of
\* the four and the maximum is at least 10; below 10 no family is named.
C12_OtherExtensionNeedsTen ==
    (Classified /\ file.ext \notin ({".prn", ".jrn"} \cup NonLogExts)) =>
        /\ file_type \in FamilyLabels =>
              /\ ScoreOfLabel(file_type, file.content) = MaxScore(file.content)
              /\ MaxScore(file.content) >= 10
        /\ MaxScore(file.content) < 10 =>
              file_type \in {Unidentified, Insufficient, CouldNotRead}

\* A .log file whose best score is exactly 10 was given a family label.
C12_Witness ==
    /\ cpc = "done"
    /\ file.ext = ".log"
    /\ MaxScore(file.content) = 10
    /\ file_type \in FamilyLabels

\* C13: for a .jrn file the UI label needs a UI score of at least 5 and the
\* customer label a customer score of at least 5, and equal UI and customer
\* scores of at least 5 give the UI label.
C13_JrnPrefersUi ==
    (Classified /\ file.ext = ".jrn" /\ file.readable) =>
        LET ui == detect_ui_journal_pattern(file.content)
            cust == detect_customer_journal_pattern(file.content)
        IN  /\ file_type = "UI Journal (.jrn)" => ui >= 5
            /\ file_type = "Customer Journal (.jrn)" => cust >= 5
            /\ (ui = cust /\ ui >= 5) => file_type = "UI Journal (.jrn)"

\* A .jrn file with 5 UI lines and 5 customer lines was labelled.
C13_Witness ==
    /\ cpc = "done"
    /\ file.ext = ".jrn"
    /\ detect_ui_journal_pattern(file.content) = 5
    /\ detect_customer_journal_pattern(file.content) = 5
    /\ file_type = "UI Journal (.jrn)"

\* The buckets that hold the file.
BucketsOf(f) ==
    {b \in DOMAIN file_categories :
        \E n \in 1..Len(file_categories[b]) : file_categories[b][n] = f}

\* C14: once the router is done the file is in at most one bucket:
\* registry_files, with the classifier never run, when its name is a registry
\* name; otherwise the bucket of the family the classifier named; and none
\* when the classifier named no family.
C14_OneBucketByNameThenLabel ==
    cpc = "done" =>
        /\ Cardinality(BucketsOf(file)) <= 1
        /\ \A b \in DOMAIN file_categories : Len(file_categories[b]) <= 1
        /\ IF IsRegistryName(file)
           THEN BucketsOf(file) = {"registry_files"} /\ file_type = ""
           ELSE /\ file_type = detect_file_type(file)
                /\ file_type = "Customer Journal (.jrn)" => BucketsOf(file) = {"customer_journals"}
                /\ file_type = "UI Journal (.jrn)" => BucketsOf(file) = {"ui_journals"}
                /\ file_type = "TRC Trace (.prn)" => BucketsOf(file) = {"trc_trace"}
                /\ file_type \in {"TRC Error (.prn)", "TRC Error (.prn/.log)"} =>
                      BucketsOf(file) = {"trc_error"}
                /\ file_type \notin FamilyLabels => BucketsOf(file) = {}

\* A file named like a registry export whose lines would classify as a
\* customer journal went to registry_files.
C14_Witness ==
    /\ cpc = "done"
    /\ file.ext = ".txt" /\ file.stem_has_reg
    /\ detect_customer_journal_pattern(file.content) >= 5
    /\ BucketsOf(file) = {"registry_files"}

\* C30: the extension confines the label, whatever the four family scores:
\* a .prn file is labelled TRC Error, TRC Trace or with a label that names no
\* family, never a journal family, even when a journal score is the maximum;
\* a .jrn file is labelled UI Journal, Customer Journal or with a label that
\* names no family, never a TRC family.
C30_ExtensionConfinesLabel ==
    Classified =>
        /\ file.ext = ".prn" =>
              /\ CategoryOfType(file_type) \in {"trc_error", "trc_trace", NoCategory}
              /\ file_type \in {"TRC Error (.prn)", "TRC Trace (.prn)", UnidentifiedPrn,
                                Unidentified, Insufficient}
        /\ file.ext = ".jrn" =>
              /\ CategoryOfType(file_type) \in {"ui_journals", "customer_journals", NoCategory}
              /\ file_type \in {"UI Journal (.jrn)", "Customer Journal (.jrn)", UnidentifiedJrn,
                                Unidentified, Insufficient}

\* A .prn file whose UI score is the maximum and at least 5, with no TRC
\* score of 5, was labelled: the label names no family.
C30_Witness ==
    /\ Classified
    /\ file.ext = ".prn"
    /\ detect_ui_journal_pattern(file.content) = MaxScore(file.content)
    /\ detect_ui_journal_pattern(file.content) >= 5
    /\ detect_trc_trace_pattern(file.content) < detect_ui_journal_pattern(file.content)
    /\ detect_trc_error_pattern(file.content) < detect_ui_journal_pattern(file.content)
    /\ file_type = UnidentifiedPrn

\* ------------------------------------------------------------------------
\* Journal indicators: lines of every combination of markers
\* ------------------------------------------------------------------------
\* A line "HH:MM:SS <number> ..." with each of the four UI markers, the
\* leading shape and a well-known code present or absent.
IndicatorShapes ==
    {[NoFeature EXCEPT !.basic = TRUE, !.dir = a, !.viewid = b, !.sep = c, !.json = d,
                       !.lead = e, !.bonus = f] :
        a \in BOOLEAN, b \in BOOLEAN, c \in BOOLEAN, d \in BOOLEAN,
        e \in BOOLEAN, f \in BOOLEAN}

\* Four lines of one journal family, followed by lines of any combination.
IndicatorContents ==
    {filler \o q :
        filler \in {[n \in 1..4 |-> ShapeCustomer], [n \in 1..4 |-> ShapeUi]},
        q \in SeqUpTo(IndicatorShapes, MaxIndicatorLines) \ {<<>>}}

InitIndicators ==
    /\ file \in [stem_has_reg : {FALSE}, ext : {".jrn", ".log"}, exists : {TRUE},
                 readable : {TRUE}, content : IndicatorContents]
    /\ file_type = ""
    /\ file_categories = EmptyCategories
    /\ cpc = "name"
    /\ ExtractorIdle
    /\ AlignerIdle
    /\ UiIdle
    /\ BatchIdle

SpecIndicators == InitIndicators /\ [][NextRouter]_vars

\* C29: no single line counts toward both the UI-journal score and the
\* customer-journal score: for every combination of the four UI markers, the
\* leading shape and the well-known-code bonus, a line with at least 4 of the
\* 5 UI indicators has at most 2 customer indicators; hence ui_score +
\* customer_score never exceeds the number of non-empty lines.
C29_NoLineCountsForBothJournals ==
    Classified =>
        /\ \A n \in 1..Len(file.content) :
              /\ UiIndicators(file.content[n]) >= 4 => NonUiIndicators(file.content[n]) <= 2
              /\ ~(IsUiLine(file.content[n]) /\ IsCustomerLine(file.content[n]))
        /\ detect_ui_journal_pattern(file.content) + detect_customer_journal_pattern(file.content)
              <= NonEmptyCount(file.content)

\* A classified file holds a line with 4 UI indicators and 2 customer
\* indicators, and its two journal scores add up to its number of lines.
C29_Witness ==
    /\ Classified
    /\ \E n \in 1..Len(file.content) :
          UiIndicators(file.content[n]) = 4 /\ NonUiIndicators(file.content[n]) = 2
    /\ detect_ui_journal_pattern(file.content) + detect_customer_journal_pattern(file.content)
          = NonEmptyCount(file.content)
    /\ detect_customer_journal_pattern(file.content) >= 1

\* ------------------------------------------------------------------------
\* UI event parser (ui_journal_processor.py, parse_ui_journal)
\* ------------------------------------------------------------------------
\* The 8-digit tokens that datetime.strptime(token, '%Y%m%d') accepts, and
\* their '%d/%m/%Y' form.
ValidYmd == {"20250404"}
DmyOf(token) == IF token = "20250404" THEN "04/04/2025" ELSE NoKey

\* file_date: the date of the 8-digit token of the file name, or the stem
\* itself when there is no token or strptime raises ValueError.
FileDate(stem) ==
    IF stem.token # NoKey /\ stem.token \in ValidYmd THEN DmyOf(stem.token)
    ELSE stem.name

\* ^(\d{2}/\d{2}/\d{4}) at the head of a cleaned line. A file stem cannot
\* hold a '/', so only a formatted date has this shape.
HasDateShape(text) == text \in {DmyOf(t) : t \in ValidYmd}

\* json.loads(event_data): "invalid" stands for JSONDecodeError, "object"
\* for a dict, "scalar" for any other JSON value (number, string, list, null).
JsonLoads(payload) ==
    IF payload \in {"{}", "{\"action\":\"ok\"}"} THEN "object"
    ELSE IF payload \in {"5", "[1]"} THEN "scalar"
    ELSE "invalid"

\* A raw line that pattern_no_date matches; pad is the white space between
\* its fields, which the regular expression swallows.
UiLine(clock, id, module, screen, kind, payload, pad) ==
    [shape |-> "event", clock |-> clock, id |-> id, module |-> module, direction |-> ">",
     viewid |-> 5, screen |-> screen, kind |-> kind, payload |-> payload, pad |-> pad]

UiTextLine == [shape |-> "text"]
UiBlankLine == [shape |-> "blank"]

\* Pass 1 filters on a stripped line.
Accepted(line) ==
    /\ line.shape = "event"
    /\ line.kind \in {"result", "action"}
    /\ ~(line.module = "GUIDM" /\ line.screen # "DMAuthorization")
    /\ JsonLoads(line.payload) # "invalid"

\* cleaned_line = f"{file_date} {timestamp}  {log_id} {module} {direction}
\* [{view_id}] - {screen} {event_type}:{event_data}"
CleanedLine(file_date, line) ==
    [file_date |-> file_date, timestamp |-> line.clock, id |-> line.id,
     module |-> line.module, direction |-> line.direction, viewid |-> line.viewid,
     screen |-> line.screen, event_type |-> line.kind, event_data |-> line.payload]

\* Pass 1, one line of the file.
CleanLine ==
    /\ upc = "pass1"
    /\ UNCHANGED <<extractorVars, alignerVars, routerVars, flowVars, batchVars>>
    /\ ui_k < Len(ui_file.lines)
    /\ LET line == ui_file.lines[ui_k + 1]
           cleaned == CleanedLine(FileDate(ui_file.stem), line)
       IN  IF Accepted(line) /\ cleaned \notin processed_lines
           THEN /\ processed_lines' = processed_lines \cup {cleaned}
                /\ cleaned_lines' = Append(cleaned_lines, cleaned)
           ELSE UNCHANGED <<processed_lines, cleaned_lines>>
    /\ ui_k' = ui_k + 1
    /\ UNCHANGED <<ui_file, parsed_data, ui_df, upc>>

\* End of pass 1: "if not cleaned_lines: return pd.DataFrame()".
Pass1Done ==
    /\ upc = "pass1"
    /\ UNCHANGED <<extractorVars, alignerVars, routerVars, flowVars, batchVars>>
    /\ ui_k = Len(ui_file.lines)
    /\ IF cleaned_lines = <<>>
       THEN upc' = "returned"
       ELSE upc' = "pass2"
    /\ ui_k' = 0
    /\ UNCHANGED <<ui_file, processed_lines, cleaned_lines, parsed_data, ui_df>>

\* The row built from a cleaned line that pattern_with_date matches.
EventRow(c) ==
    [date |-> c.file_date, timestamp |-> c.timestamp, id |-> c.id, module |-> c.module,
     direction |-> c.direction, viewid |-> c.viewid, screen |-> c.screen,
     event_type |-> c.event_type, raw_json |-> c.event_data]

\* Pass 2, one cleaned line. A line that starts with a file stem instead of
\* a date matches neither pattern and is passed over; json_data.items() raises
\* AttributeError on a payload that is valid JSON but not an object.
StructureLine ==
    /\ upc = "pass2"
    /\ UNCHANGED <<extractorVars, alignerVars, routerVars, flowVars, batchVars>>
    /\ ui_k < Len(cleaned_lines)
    /\ LET c == cleaned_lines[ui_k + 1]
       IN  IF ~HasDateShape(c.file_date)
           THEN UNCHANGED <<parsed_data, upc>>
           ELSE IF JsonLoads(c.event_data) = "scalar"
           THEN /\ upc' = "raised"
                /\ UNCHANGED parsed_data
           ELSE /\ parsed_data' = Append(parsed_data, EventRow(c))
                /\ UNCHANGED upc
    /\ ui_k' = ui_k + 1
    /\ UNCHANGED <<ui_file, processed_lines, cleaned_lines, ui_df>>

\* End of pass 2: the DataFrame of the rows (empty when there are none).
Pass2Done ==
    /\ upc = "pass2"
    /\ UNCHANGED <<extractorVars, alignerVars, routerVars, flowVars, batchVars>>
    /\ ui_k = Len(cleaned_lines)
    /\ ui_df' = parsed_data
    /\ upc' = "returned"
    /\ UNCHANGED <<ui_file, ui_k, processed_lines, cleaned_lines, parsed_data>>

UiStems == {[name |-> "ui_20250404", token |-> "20250404"],
            [name |-> "ui_20251340", token |-> "20251340"],
            [name |-> "ui_journal", token |-> NoKey]}

UiLines ==
    {UiLine(<<9, 15, 0>>, 12, "GUIAPP", "Menu", "result", "{}", 1),
     UiLine(<<9, 15, 0>>, 12, "GUIAPP", "Menu", "result", "{}", 2),
     UiLine(<<9, 15, 5>>, 13, "GUIAPP", "Cash", "action", "{\"action\":\"ok\"}", 1),
     UiLine(<<9, 15, 6>>, 14, "GUIDM", "Idle", "result", "{}", 1),
     UiLine(<<9, 15, 7>>, 15, "GUIDM", "DMAuthorization", "result", "{}", 1),
     UiLine(<<9, 15, 8>>, 16, "GUIAPP", "Menu", "result", "{bad", 1),
     UiLine(<<9, 15, 9>>, 17, "GUIAPP", "Menu", "result", "5", 1),
     UiTextLine,
     UiBlankLine}

\* parse_ui_journal on an existing file.
InitParse ==
    /\ ui_file \in [stem : UiStems, lines : SeqUpTo(UiLines, MaxUiLines)]
    /\ ui_k = 0
    /\ processed_lines = {}
    /\ cleaned_lines = <<>>
    /\ parsed_data = <<>>
    /\ ui_df = <<>>
    /\ upc = "pass1"
    /\ ExtractorIdle
    /\ AlignerIdle
    /\ RouterIdle
    /\ FlowIdle
    /\ BatchIdle

NextParse ==
    \/ CleanLine
    \/ Pass1Done
    \/ StructureLine
    \/ Pass2Done

SpecParse == InitParse /\ [][NextParse]_vars

\* ------------------------------------------------------------------------
\* Properties of the UI event parser
\* ------------------------------------------------------------------------
\* The accepted lines of the file with the date injected, in file order.
RECURSIVE AcceptedCleaned(_, _)
AcceptedCleaned(file_date, ls) ==
    IF ls = <<>> THEN <<>>
    ELSE IF Accepted(Head(ls))
         THEN <<CleanedLine(file_date, Head(ls))>> \o AcceptedCleaned(file_date, Tail(ls))
         ELSE AcceptedCleaned(file_date, Tail(ls))

\* q with every repeat after the first occurrence removed.
FirstOccurrences(q) ==
    LET keep == {n \in 1..Len(q) : \A m \in 1..(n - 1) : q[m] # q[n]}
        RECURSIVE Take(_)
        Take(n) == IF n > Len(q) THEN <<>>
                   ELSE IF n \in keep THEN <<q[n]>> \o Take(n + 1)
                   ELSE Take(n + 1)
    IN  Take(1)

\* The line an event was built from.
LineOfEvent(ev) ==
    [file_date |-> ev.date, timestamp |-> ev.timestamp, id |-> ev.id, module |-> ev.module,
     direction |-> ev.direction, viewid |-> ev.viewid, screen |-> ev.screen,
     event_type |-> ev.event_type, event_data |-> ev.raw_json]

EventLines == [n \in 1..Len(ui_df) |-> LineOfEvent(ui_df[n])]

\* C15: the returned events are built from pairwise different lines, and
\* they are the file's accepted lines (date injected) in file order with
\* every repeat after the first removed.
C15_DedupFirstSeen ==
    upc = "returned" =>
        /\ \A m, n \in 1..Len(ui_df) : m # n => EventLines[m] # EventLines[n]
        /\ EventLines = FirstOccurrences(AcceptedCleaned(FileDate(ui_file.stem), ui_file.lines))

\* C16: parsing never aborts, and every accepted line with an object
\* payload has its event in the returned list, whatever other lines with an
\* undecodable or non-object payload the file holds.
C16_BadPayloadSkippedAlone ==
    /\ upc # "raised"
    /\ upc = "returned" =>
          \A n \in 1..Len(ui_file.lines) :
              (Accepted(ui_file.lines[n]) /\ JsonLoads(ui_file.lines[n].payload) = "object") =>
                  \E e \in 1..Len(ui_df) :
                      EventLines[e] = CleanedLine(FileDate(ui_file.stem), ui_file.lines[n])

\* C24: every distinct line that survives pass 1 (date injected) is structured
\* by pass 2 into exactly one event, whether the file name holds a valid
\* 8-digit date or not: the returned events are one per surviving line, in
\* order, and as many as the surviving lines.
C24_OneEventPerSurvivingLine ==
    upc = "returned" =>
        /\ Len(ui_df) = Len(cleaned_lines)
        /\ \A n \in 1..Len(cleaned_lines) :
              Cardinality({e \in 1..Len(ui_df) : EventLines[e] = cleaned_lines[n]}) = 1

\* ------------------------------------------------------------------------
\* Screen flows (UIJournalProcessor.get_screen_flow)
\* ------------------------------------------------------------------------
\* pd.to_datetime(timestamp, errors='coerce') followed by .dt.time: the
\* time of day, or None (NaT) for digits that are no clock time.
TimeOfDay(ev) == Strptime(ev.timestamp)

\* InWindow when a window whose end is earlier than its start runs over
\* midnight.
InWindowOverMidnight(ev, w) ==
    /\ TimeOfDay(ev) # None
    /\ IF w.end < w.start
       THEN TimeOfDay(ev) >= w.start \/ TimeOfDay(ev) <= w.end
       ELSE TimeOfDay(ev) >= w.start /\ TimeOfDay(ev) <= w.end

\* (dt.time >= start_time) & (dt.time <= end_time); a NaT compares False.
InWindow(ev, w) ==
    /\ TimeOfDay(ev) # None
    /\ TimeOfDay(ev) >= w.start
    /\ TimeOfDay(ev) <= w.end

\* get_events_in_timerange: the rows of the window, in frame order.
EventsInTimerange(events, w) == SelectSeq(events, LAMBDA ev : InWindow(ev, w))

\* sort_values('timestamp'): every order of the rows by time; the default
\* sort is not stable, so rows of equal time may come out in any order.
SortedByTime(events) ==
    LET n == Len(events)
        perms == {f \in [1..n -> 1..n] : \A a, b \in 1..n : a # b => f[a] # f[b]}
    IN  {[a \in 1..n |-> events[f[a]]] :
            f \in {g \in perms :
                     \A a, b \in 1..n :
                         a < b => TimeOfDay(events[g[a]]) <= TimeOfDay(events[g[b]])}}

RECURSIVE FlowFrom(_, _)
FlowFrom(events, prev_screen) ==
    IF events = <<>> THEN <<>>
    ELSE IF Head(events).screen # prev_screen
         THEN <<Head(events).screen>> \o FlowFrom(Tail(events), Head(events).screen)
         ELSE FlowFrom(Tail(events), prev_screen)

\* The loop of get_screen_flow without the comparison to prev_screen.
FlowOfKeepAll(events) == [n \in 1..Len(events) |-> events[n].screen]

\* The loop of get_screen_flow: a screen is appended when it differs from
\* prev_screen, which starts as None.
FlowOf(events) == FlowFrom(events, NoKey)

\* get_screen_flow(start_time, end_time) on the loaded frame; on a frame
\* without rows (and so without a 'timestamp' column) it raises KeyError.
ScreenFlows(events, w) ==
    {FlowOf(sorted) : sorted \in SortedByTime(EventsInTimerange(events, w))}

GetScreenFlow ==
    /\ fpc = "start"
    /\ UNCHANGED <<extractorVars, alignerVars, routerVars, parserVars, batchVars>>
    /\ IF ui_df = <<>>
       THEN /\ fpc' = "raised"
            /\ UNCHANGED screen_flow
       ELSE /\ screen_flow' \in ScreenFlows(ui_df, window)
            /\ fpc' = "flow"
    /\ UNCHANGED <<window, report_flow, read_flow, side_flow, compare_flow, visual_flow>>

\* ------------------------------------------------------------------------
\* The flow report (map_transactions_and_generate_report) and its reader
\* (extract_actual_flows_from_txt_file)
\* ------------------------------------------------------------------------
\* strftime('%H:%M:%S') of a time of day keeps it; screen_with_time is the
\* pair of the screen and that text.
ScreenWithTime(ev) == [screen |-> ev.screen, hhmmss |-> TimeOfDay(ev)]

NoPart == [screen |-> NoKey, hhmmss |-> None]

\* flow_parts: "screen[time]" followed by "--detail-->", appended when
\* screen_with_time differs from the one before.
RECURSIVE FlowParts(_, _)
FlowParts(events, prev_screen) ==
    IF events = <<>> THEN <<>>
    ELSE LET swt == ScreenWithTime(Head(events))
         IN  IF swt # prev_screen
             THEN <<[kind |-> "screen", screen |-> swt.screen, hhmmss |-> swt.hhmmss],
                    [kind |-> "arrow", screen |-> NoKey, hhmmss |-> None]>>
                  \o FlowParts(Tail(events), swt)
             ELSE FlowParts(Tail(events), prev_screen)

\* The report of one transaction whose times are present: ValueError when
\* the frame lacks the required columns (a frame without rows has none);
\* otherwise the Flow line, "No screen data available" for no parts.
MapAndWriteReport ==
    /\ fpc = "start"
    /\ UNCHANGED <<extractorVars, alignerVars, routerVars, parserVars, batchVars>>
    /\ IF ui_df = <<>>
       THEN /\ fpc' = "raised"
            /\ UNCHANGED report_flow
       ELSE /\ \E sorted \in SortedByTime(EventsInTimerange(ui_df, window)) :
                  report_flow' = FlowParts(sorted, NoPart)
            /\ fpc' = "written"
    /\ UNCHANGED <<window, screen_flow, read_flow, side_flow, compare_flow, visual_flow>>

NoFlowData == "No flow data"
NoScreensInRange == "No screens in time range"

\* flow_line.split('--') and, for each part with brackets, the text before
\* '[': the first part is "Menu[09:15:00] ", every later screen part is
\* "> Cash[09:15:05] ", the rest of the arrow "-->" before it included.
RECURSIVE ScreensOfParts(_, _)
ScreensOfParts(parts, first) ==
    IF parts = <<>> THEN <<>>
    ELSE IF Head(parts).kind = "screen"
         THEN <<IF first THEN Head(parts).screen ELSE "> " \o Head(parts).screen>>
              \o ScreensOfParts(Tail(parts), FALSE)
         ELSE ScreensOfParts(Tail(parts), first)

\* flows[txn_id]['screens'] for the transaction of the report.
ScreensReadBack(parts) ==
    IF parts = <<>> THEN <<NoFlowData>>
    ELSE IF ScreensOfParts(parts, TRUE) # <<>> THEN ScreensOfParts(parts, TRUE)
    ELSE <<NoFlowData>>

\* extract_actual_flows_from_txt_file on the written report.
ReadReport ==
    /\ fpc = "written"
    /\ UNCHANGED <<extractorVars, alignerVars, routerVars, parserVars, batchVars>>
    /\ read_flow' = ScreensReadBack(report_flow)
    /\ fpc' = "read"
    /\ UNCHANGED <<window, screen_flow, report_flow, side_flow, compare_flow, visual_flow>>

\* create_side_by_side_flow_comparison_data up to txn1_flow: the report is
\* read and the transaction looked up, with the sentinel as the default.
SideBySide ==
    /\ fpc = "written"
    /\ UNCHANGED <<extractorVars, alignerVars, routerVars, parserVars, batchVars>>
    /\ side_flow' = ScreensReadBack(report_flow)
    /\ fpc' = "side"
    /\ UNCHANGED <<window, screen_flow, report_flow, read_flow, compare_flow, visual_flow>>

\* compare_transactions_flow, extract_flow_for_transaction with one UI
\* journal: the sentinel stays unless a non-empty flow was extracted.
CompareFlow ==
    /\ fpc = "start"
    /\ UNCHANGED <<extractorVars, alignerVars, routerVars, parserVars, batchVars>>
    /\ IF ui_df # <<>>
       THEN \E extracted_screens \in ScreenFlows(ui_df, window) :
                compare_flow' = IF Len(extracted_screens) > 0 THEN extracted_screens
                                ELSE <<NoScreensInRange>>
       ELSE compare_flow' = <<NoScreensInRange>>
    /\ fpc' = "compared"
    /\ UNCHANGED <<window, screen_flow, report_flow, read_flow, side_flow, visual_flow>>

\* visualize_individual_transaction_flow with one UI journal:
\* get_screen_flow's result is assigned to ui_flow_screens itself.
VisualizeFlow ==
    /\ fpc = "start"
    /\ UNCHANGED <<extractorVars, alignerVars, routerVars, parserVars, batchVars>>
    /\ IF ui_df # <<>>
       THEN visual_flow' \in ScreenFlows(ui_df, window)
       ELSE visual_flow' = <<NoFlowData>>
    /\ fpc' = "visualized"
    /\ UNCHANGED <<window, screen_flow, report_flow, read_flow, side_flow, compare_flow>>

FlowEvent(clock, screen) ==
    EventRow(CleanedLine("04/04/2025", UiLine(clock, 12, "GUIAPP", screen, "result", "{}", 1)))

FlowClocks == {<<9, 15, 0>>, <<9, 15, 5>>, <<9, 15, 9>>}
FlowEvents ==
    {FlowEvent(c, sc) : c \in FlowClocks \cup {<<25, 61, 61>>}, sc \in {"Menu", "Cash"}}

\* A parsed journal (possibly without events) and a transaction whose start
\* and end times are present.
InitFlow ==
    /\ ui_file = [stem |-> [name |-> "", token |-> ""], lines |-> <<>>]
    /\ ui_k = 0
    /\ processed_lines = {}
    /\ cleaned_lines = <<>>
    /\ parsed_data = <<>>
    /\ ui_df \in SeqUpTo(FlowEvents, MaxEvents)
    /\ upc = "returned"
    /\ window \in [start : {Strptime(c) : c \in FlowClocks}, end : {Strptime(c) : c \in FlowClocks}]
    /\ screen_flow = <<>>
    /\ report_flow = <<>>
    /\ read_flow = <<>>
    /\ side_flow = <<>>
    /\ compare_flow = <<>>
    /\ visual_flow = <<>>
    /\ fpc = "start"
    /\ ExtractorIdle
    /\ AlignerIdle
    /\ RouterIdle
    /\ BatchIdle

NextFlow ==
    \/ GetScreenFlow
    \/ MapAndWriteReport
    \/ ReadReport
    \/ SideBySide
    \/ CompareFlow
    \/ VisualizeFlow

SpecFlow == InitFlow /\ [][NextFlow]_vars

\* ------------------------------------------------------------------------
\* Properties of the screen flows
\* ------------------------------------------------------------------------
NoAdjacentRepeat(q) == \A n \in 1..(Len(q) - 1) : q[n] # q[n + 1]

\* flow is q with each run of equal entries reduced to one: flow has no
\* adjacent repeat and q maps onto it by a step function.
IsRunCollapse(q, flow) ==
    /\ NoAdjacentRepeat(flow)
    /\ (q = <<>>) = (flow = <<>>)
    /\ q # <<>> =>
          \E h \in [1..Len(q) -> 1..Len(flow)] :
              /\ h[1] = 1 /\ h[Len(q)] = Len(flow)
              /\ \A n \in 1..(Len(q) - 1) : h[n + 1] \in {h[n], h[n] + 1}
              /\ \A n \in 1..Len(q) : flow[h[n]] = q[n]

C18_NoAdjacentRepeatAnywhere ==
    /\ fpc = "flow" => NoAdjacentRepeat(screen_flow)
    /\ fpc = "read" => NoAdjacentRepeat(read_flow)
    /\ fpc = "side" => NoAdjacentRepeat(side_flow)

NoEventInWindow == EventsInTimerange(ui_df, window) = <<>>

\* C19: with no event in the transaction's window every consumer's flow is
\* a list of exactly one sentinel element.
C19_SentinelWhenNoEvents ==
    NoEventInWindow =>
        /\ fpc = "compared" => compare_flow = <<NoScreensInRange>>
        /\ fpc = "visualized" => visual_flow = <<NoFlowData>>
        /\ fpc = "side" => side_flow = <<NoFlowData>>

CategoryNames == {"customer_journals", "ui_journals", "trc_trace", "trc_error", "registry_files"}

RECURSIVE SumOver(_, _)
SumOver(f, S) ==
    IF S = {} THEN 0
    ELSE LET x == CHOOSE y \in S : TRUE
         IN  f[x] + SumOver(f, S \ {x})

\* prepare_response that totals the journal buckets only.
PrepareResponseJournalsOnly ==
    /\ cpc = "done"
    /\ UNCHANGED <<extractorVars, alignerVars, uiVars>>
    /\ response' =
          [total_files |-> Len(file_categories.customer_journals)
                           + Len(file_categories.ui_journals),
           categories |-> [c \in CategoryNames |-> Len(file_categories[c])]]
    /\ cpc' = "responded"
    /\ UNCHANGED <<file, file_type, file_categories, summary>>

\* prepare_response: total_files is the sum of the bucket lengths and each
\* category carries its bucket's length.
PrepareResponse ==
    /\ cpc = "done"
    /\ UNCHANGED <<extractorVars, alignerVars, uiVars>>
    /\ response' =
          [total_files |-> SumOver([c \in CategoryNames |-> Len(file_categories[c])],
                                   CategoryNames),
           categories |-> [c \in CategoryNames |-> Len(file_categories[c])]]
    /\ cpc' = "responded"
    /\ UNCHANGED <<file, file_type, file_categories, summary>>

\* The transactions of a journal file as the batch sees them: none when the
\* extraction raised (the exception is caught and the file passed over).
AllTransactions == IF pc = "done" THEN transactions ELSE <<>>

CountEndState(txns, st) == Cardinality({n \in 1..Len(txns) : txns[n].EndState = st})

\* The summary of analyze_customer_journals for one journal file.
AnalyzeSummary ==
    /\ pc \in {"done", "raised"}
    /\ UNCHANGED <<alignerVars, routerVars, uiVars>>
    /\ summary' = [total_transactions |-> Len(AllTransactions),
                   successful |-> CountEndState(AllTransactions, "Successful"),
                   unsuccessful |-> CountEndState(AllTransactions, "Unsuccessful")]
    /\ pc' = "analyzed"
    /\ UNCHANGED <<inputVars, df, walkVars, k, transactions, today, run, firstRun, response>>

\* A batch is either a file to categorize or a customer journal to analyze.
InitBatch == InitRouter \/ InitTxn

NextBatch ==
    \/ NameCheck
    \/ Classify
    \/ Route
    \/ PrepareResponse
    \/ Parse
    \/ OuterStep
    \/ InnerStep
    \/ CloseSegment
    \/ BuildTransaction
    \/ Return
    \/ Rerun
    \/ AnalyzeSummary

SpecBatch == InitBatch /\ [][NextBatch]_vars

\* ------------------------------------------------------------------------
\* Properties of the batch results
\* ------------------------------------------------------------------------
\* The number of files of the batch that ended in no bucket.
UnclassifiedFiles == IF BucketsOf(file) = {} THEN 1 ELSE 0

\* The candidate segments the walk began and gave up: rows with a start or
\* chain code that lie in no closed segment.
DroppedCandidates ==
    Cardinality({r \in 0..(Len(df) - 1) : IsStartOrChain(Row(r)) /\ ~Covered(r)})

ResponseNumbers == {response.total_files} \cup {response.categories[c] : c \in CategoryNames}
SummaryNumbers == {summary.total_transactions, summary.successful, summary.unsuccessful}

FlowsOfComparison(sentinel) ==
    {<<sentinel>>} \cup (SeqUpTo(Screens, MaxFlowLen) \ {<<>>})

\* compare_transactions_flow (sentinel "No screens in time range") and
\* create_side_by_side_flow_comparison_data (sentinel "No flow data") at the
\* call of find_lcs_matches.
InitCompare ==
    /\ \E sentinel \in {NoScreensInRange, NoFlowData} :
          /\ flow1 \in FlowsOfComparison(sentinel)
          /\ flow2 \in FlowsOfComparison(sentinel)
    /\ lcs_table = <<>>
    /\ li = 0 /\ lj = 0
    /\ matches1 = <<>> /\ matches2 = <<>>
    /\ lpc = "start"
    /\ ExtractorIdle
    /\ RouterIdle
    /\ UiIdle
    /\ BatchIdle

SpecCompare == InitCompare /\ [][NextLcs]_vars

IsSentinelFlow(flow) == flow \in {<<NoScreensInRange>>, <<NoFlowData>>}

\* C26: when one or both compared transactions have no flow data (the flow is
\* the single sentinel element), every entry of both returned match masks is
\* false.
C26_SentinelNeverMatched ==
    (lpc = "done" /\ (IsSentinelFlow(flow1) \/ IsSentinelFlow(flow2))) =>
        /\ \A n \in 1..Len(matches1) : ~matches1[n]
        /\ \A n \in 1..Len(matches2) : ~matches2[n]
=============================================================================
